---- MODULE Spec2Model ----
\* congomap: four concurrent string-keyed caches (channelMap, syncAtomicMap,
\* syncMutexMap, twoLevelMap) behind one Congomap interface.  Caller goroutines
\* and the background run() goroutine are modelled as processes whose steps are
\* the lock-delimited sections of the Go code.
EXTENDS Integers, Sequences, FiniteSets, TLC

\* ---------------------------------------------------------------- bounds
MaxTime == 2      \* the clock runs 1..MaxTime
MaxVals == 2      \* values handed to Store or produced by lookup
MaxOps  == 3      \* calls issued by the caller goroutines in one run

\* ---------------------------------------------------------------- domains
Keys     == {"a"}
Procs    == {"p1", "p2"}
Run      == "run"                       \* the goroutine started by `go cgm.run()`
AllProcs == Procs \cup {Run}
Variants == {"channel", "syncAtomic", "syncMutex", "twoLevel"}
Ops      == {"Load", "LoadStore", "Store", "Delete", "GC"}
None     == "none"
NoWrap   == -1                          \* the value is not an *ExpiringValue
Wraps    == {NoWrap, 1}              \* explicit Expiry of a wrapped value
Vals     == 1..MaxVals

\* ExpiringValue; val = 0 stands for the nil pointer
NilEV    == [val |-> 0, exp |-> 0]
NoArg    == [val |-> 0, wrap |-> NoWrap]
NoRes    == [val |-> 0, ok |-> FALSE, err |-> None, wrapper |-> FALSE]

VARIABLES
    variant,     \* which implementation was constructed
    reaperSet,   \* cgm.reaper != nil
    lookupSet,   \* a lookup callback was configured
    ttl,         \* cgm.ttlDuration (0: TTL never called)
    now,         \* time.Now()
    db,          \* key -> *ExpiringValue   (channel, syncAtomic, syncMutex)
    tdb,         \* key -> index of the *lockingValue in slots, 0 absent (twoLevel)
    slots,       \* the lockingValues ever allocated: [ev, l]
    dbLock,      \* holder of cgm.dbLock (writer side), or None
    halted,      \* cgm.halt is closed
    th,          \* per goroutine: program counter and locals
    cur,         \* channel variant: the closure the owner received and has not finished
    wg,          \* per goroutine: values whose reaper goroutine was spawned and has not run
    detached,    \* reaper goroutines nobody waits for
    reaped,      \* value -> number of reaper invocations
    nextVal,     \* next fresh value
    nops,        \* calls issued so far
    panicked,    \* a goroutine panicked (nil dereference): the process is gone
    valExp,      \* history: the Expiry the cache gave to each value
    valKey,      \* history: the key each value was installed under (None: never)
    want,        \* history: what a quiescent key must hold (see Expect)
    atClose,     \* history: what the map held when Close was called
    ctor,        \* the call of the constructor: its setters and what it returned
    it           \* the Pairs iteration: its goroutine, its snapshot and the pairs sent

vars == <<variant, reaperSet, lookupSet, ttl, now, db, tdb, slots, dbLock, halted,
          th, cur, wg, detached, reaped, nextVal, nops, panicked, valExp, valKey, want,
          atClose, ctor, it>>

cfg  == <<variant, reaperSet, lookupSet, ttl, ctor>>
hist == <<valExp, valKey, atClose>>

\* ---------------------------------------------------------------- helpers
\* the validity test with the comparison of the expiry left out: the fault the
\* no-expired-load property has to catch
ValidIgnoringExpiry(ev, t) == ev.val # 0

\* ev.Expiry.IsZero() || ev.Expiry.After(t)
Valid(ev, t) == ev.val # 0 /\ (ev.exp = 0 \/ ev.exp > t)

\* !ev.Expiry.IsZero() && t.After(ev.Expiry)
Expired(ev, t) == ev.val # 0 /\ ev.exp # 0 /\ t > ev.exp

\* newExpiringValue giving every value the default TTL, wrapped or not: the
\* fault the expiry rule property has to catch
newExpiringValueDefaultOnly(value, defaultDuration) ==
    IF defaultDuration > 0
    THEN [val |-> value.val, exp |-> now + defaultDuration]
    ELSE [val |-> value.val, exp |-> 0]

\* congomap.go newExpiringValue: a wrapped value keeps its own Expiry
newExpiringValue(value, defaultDuration) ==
    IF value.wrap # NoWrap
    THEN [val |-> value.val, exp |-> value.wrap]
    ELSE IF defaultDuration > 0
         THEN [val |-> value.val, exp |-> now + defaultDuration]
         ELSE [val |-> value.val, exp |-> 0]

ttlEnabled == ttl > 0

\* ensureExpiringValue of channelMap and syncMutexMap
ensureExpiringValue(value) ==
    IF value.wrap # NoWrap
    THEN [val |-> value.val, exp |-> value.wrap]
    ELSE IF ttlEnabled
         THEN [val |-> value.val, exp |-> now + ttl]
         ELSE [val |-> value.val, exp |-> 0]

Ret(p) == IF p = Run THEN "active" ELSE "done"

\* the function r with one more invocation of the reaper on each value of S
ReapAll(r, S) == [v \in Vals |-> IF v \in S THEN r[v] + 1 ELSE r[v]]

\* calls that change what key k holds
Mutators == {"Store", "LoadStore", "Delete"}
Mutating(k) ==
    \/ \E q \in Procs : /\ th[q].op \in Mutators /\ th[q].key = k
                        /\ th[q].pc \notin {"idle", "done"}
    \/ cur.op \in Mutators /\ cur.key = k
    \/ halted /\ th[Run].pc # "exited"

\* history: what a key holds once a call that ran alone on it has returned
Unknown   == [s |-> "unknown", val |-> 0]
Absent    == [s |-> "absent", val |-> 0]
Stored(v) == [s |-> "store", val |-> v]
Looked(v) == [s |-> "lookup", val |-> v]
LookupFailed == [s |-> "failed", val |-> 0]

\* the error a failing lookup returns
LookupErr == IF lookupSet THEN "ErrLookup" ELSE "ErrNoLookupDefined"

\* channel variant: the owner goroutine runs no closure
NoFn == [op |-> None, key |-> None, arg |-> NoArg, from |-> None, run |-> None]

\* Pairs has not been called
NoIt == [pc |-> None, from |-> None, snap |-> << >>, at |-> 0, now |-> 0, todo |-> {},
         out |-> << >>, nops |-> 0, alone |-> FALSE]

\* history: Close has not been called
NotClosed == [quiet |-> FALSE, vals |-> {}, reaped |-> [v \in Vals |-> 0]]

\* the fields of a map the constructor has just allocated, and its callers;
\* runPc is where the run goroutine stands
Allocated(runPc) ==
    /\ now = 1
    /\ db = [k \in Keys |-> NilEV]
    /\ tdb = [k \in Keys |-> 0]
    /\ slots = << >>
    /\ dbLock = None
    /\ halted = FALSE
    /\ th = [p \in AllProcs |->
               [pc |-> IF p = Run THEN runPc ELSE "idle", op |-> None, key |-> None,
                arg |-> NoArg, lv |-> 0, ok |-> FALSE, ev |-> NilEV, res |-> NoRes,
                t0 |-> IF p = Run THEN 1 ELSE 0,
                did |-> FALSE, expect |-> Unknown, todo |-> {}, cap |-> 0,
                gcnow |-> 0, keys |-> {}, clean |-> FALSE, waited |-> 0]]
    /\ cur = NoFn
    /\ wg = [p \in AllProcs |-> {}]
    /\ detached = {}
    /\ reaped = [v \in Vals |-> 0]
    /\ nextVal = 1
    /\ nops = 0
    /\ panicked = FALSE
    /\ valExp = [v \in Vals |-> 0]
    /\ valKey = [v \in Vals |-> None]
    /\ want = [k \in Keys |-> Unknown]
    /\ atClose = NotClosed
    /\ it = NoIt

\* the constructor has returned the map (cgm, nil) it built from these options
Returned(l, r, d) ==
    [pc |-> "done", hasLookup |-> l, hasReaper |-> r, hasTTL |-> d > 0, duration |-> d,
     err |-> None, cgm |-> TRUE]

\* a map built with a lookup callback
Init ==
    /\ variant \in Variants
    /\ reaperSet \in BOOLEAN
    /\ lookupSet = TRUE
    /\ ttl \in {0, 1}
    /\ ctor = Returned(lookupSet, reaperSet, ttl)
    /\ Allocated("active")

\* a map built without the Lookup option
InitNoLookup ==
    /\ variant \in Variants
    /\ reaperSet \in BOOLEAN
    /\ lookupSet = FALSE
    /\ ttl \in {0, 1}
    /\ ctor = Returned(lookupSet, reaperSet, ttl)
    /\ Allocated("active")

\* ---------------------------------------------------------------- constructor
\* the durations a caller may hand to the TTL option
Durations == (-1)..MaxTime

\* the setter that takes any duration but a negative one: the fault the
\* invalid-duration property has to catch
TTLZeroAllowed(duration) == IF duration < 0 THEN "ErrInvalidDuration" ELSE None

\* the TTL setter: the error it returns
TTL(duration) == IF duration <= 0 THEN "ErrInvalidDuration" ELSE None

\* a constructor is called with any combination of the options Lookup,
\* Reaper and TTL; nothing is built yet
InitNew ==
    /\ variant \in Variants
    /\ reaperSet = FALSE
    /\ lookupSet = FALSE
    /\ ttl = 0
    /\ ctor \in {[pc |-> "call", hasLookup |-> l, hasReaper |-> r, hasTTL |-> t,
                   duration |-> d, err |-> None, cgm |-> FALSE] :
                  l \in BOOLEAN, r \in BOOLEAN, t \in BOOLEAN, d \in Durations}
    /\ ~ctor.hasTTL => ctor.duration = 0
    /\ Allocated("unstarted")

\* NewChannelMap, NewSyncAtomicMap, NewSyncMutexMap, NewTwoLevelMap: apply the
\* setters; the first error is returned with a nil map, else the run
\* goroutine is started and the map returned
New ==
    /\ ctor.pc = "call"
    /\ IF ctor.hasTTL /\ TTL(ctor.duration) # None
       THEN /\ ctor' = [ctor EXCEPT !.pc = "done", !.err = TTL(ctor.duration)]
            /\ UNCHANGED <<reaperSet, lookupSet, ttl, th>>
       ELSE /\ lookupSet' = ctor.hasLookup
            /\ reaperSet' = ctor.hasReaper
            /\ ttl' = IF ctor.hasTTL THEN ctor.duration ELSE 0
            /\ th' = [th EXCEPT ![Run].pc = "active"]
            /\ ctor' = [ctor EXCEPT !.pc = "done", !.cgm = TRUE]
    /\ UNCHANGED <<variant, it, hist, now, db, tdb, slots, dbLock, halted, cur, wg, detached,
                   reaped, nextVal, nops, panicked, want>>

\* ---------------------------------------------------------------- callers
\* A caller goroutine issues the next call of the Congomap interface.
Call(p, o, k, w) ==
    /\ ~panicked
    /\ ~halted                                      \* no call is issued after Close
    /\ th[p].pc \in {"idle", "done"}
    /\ nops < MaxOps
    /\ o = "Store" => nextVal <= MaxVals
    /\ o # "Store" => w = NoWrap
    /\ nops' = nops + 1
    /\ nextVal' = IF o = "Store" THEN nextVal + 1 ELSE nextVal
    /\ th' = [q \in AllProcs |->
                IF q = p
                THEN [th[p] EXCEPT !.pc = "call", !.op = o,
                          !.key = IF o = "GC" THEN None ELSE k,
                          !.arg = IF o = "Store" THEN [val |-> nextVal, wrap |-> w] ELSE NoArg,
                          !.lv = 0, !.ok = FALSE, !.ev = NilEV, !.res = NoRes, !.did = FALSE,
                          !.t0 = IF o = "Load" THEN now ELSE 0,
                          !.expect = IF o = "Load" \/ (o = "LoadStore" /\ want[k] = LookupFailed)
                                     THEN want[k] ELSE Unknown,
                          !.clean = o \in Mutators /\ ~Mutating(k),
                          !.waited = 0,
                          !.todo = {}, !.cap = 0, !.gcnow = 0, !.keys = {}]
                ELSE IF o \in Mutators /\ th[q].key = k
                     THEN [th[q] EXCEPT !.clean = FALSE, !.expect = Unknown]
                     ELSE th[q]]
    /\ want' = IF o \in Mutators THEN [want EXCEPT ![k] = Unknown] ELSE want
    /\ UNCHANGED <<cfg, it, now, db, tdb, slots, dbLock, halted,
                   cur, wg, detached, reaped, panicked, hist>>

\* time passes
Tick ==
    /\ ~panicked
    /\ now < MaxTime
    /\ now' = now + 1
    /\ UNCHANGED <<cfg, it, db, tdb, slots, dbLock, halted, th,
                   cur, wg, detached, reaped, nextVal, nops, panicked, hist, want>>

\* a spawned `go func(value) { cgm.reaper(value); wg.Done() }` runs
ReaperRun(p, v) ==
    /\ ~panicked
    /\ v \in wg[p]
    /\ wg' = [wg EXCEPT ![p] = @ \ {v}]
    /\ reaped' = ReapAll(reaped, {v})
    /\ UNCHANGED <<cfg, it, now, db, tdb, slots, dbLock, halted, th,
                   cur, detached, nextVal, nops, panicked, hist, want>>

\* a reaper goroutine whose WaitGroup nobody waits on runs
DetachedReaperRun(v) ==
    /\ ~panicked
    /\ v \in detached
    /\ detached' = detached \ {v}
    /\ reaped' = ReapAll(reaped, {v})
    /\ UNCHANGED <<cfg, it, now, db, tdb, slots, dbLock, halted, th,
                   cur, wg, nextVal, nops, panicked, hist, want>>

\* what the lookup callback may return: an error, or a fresh value, bare or
\* wrapped in an *ExpiringValue
LookupOutcomes ==
    {[err |-> LookupErr, arg |-> NoArg]} \cup
    (IF lookupSet /\ nextVal <= MaxVals
     THEN {[err |-> None, arg |-> [val |-> nextVal, wrap |-> w]] : w \in Wraps}
     ELSE {})

\* history bookkeeping when a value is installed
Installed(ev, k) ==
    /\ valExp' = [valExp EXCEPT ![ev.val] = ev.exp]
    /\ valKey' = [valKey EXCEPT ![ev.val] = k]
    /\ UNCHANGED atClose

\* history bookkeeping when the mutating call of p returns with outcome w
WantAfter(p, w) == IF th[p].clean THEN [want EXCEPT ![th[p].key] = w] ELSE want

\* the result records of Load and LoadStore
Hit(ev)    == [val |-> ev.val, ok |-> TRUE, err |-> None, wrapper |-> FALSE]
Miss       == NoRes
Failed(e)  == [val |-> 0, ok |-> FALSE, err |-> e, wrapper |-> FALSE]
Fresh(arg) == [val |-> arg.val, ok |-> TRUE, err |-> None, wrapper |-> arg.wrap # NoWrap]

\* the call of p returns r; its locals die
Return(p, r) ==
    [th EXCEPT ![p] = [@ EXCEPT !.pc = Ret(p), !.res = r, !.lv = 0, !.ok = FALSE, !.ev = NilEV,
                                !.op = IF p = Run THEN None ELSE @,
                                !.t0 = IF p = Run THEN now ELSE @,
                                !.arg = NoArg, !.clean = FALSE, !.todo = {}, !.cap = 0,
                                !.gcnow = 0, !.keys = {}]]

\* history: the LoadStore callers in W, blocked behind a lookup, learn its outcome n
\* (-1: it failed, v: it produced value v)
MarkWaiters(t, W, n) ==
    [q \in AllProcs |-> IF q \in W THEN [t[q] EXCEPT !.waited = n] ELSE t[q]]

\* ================================================================ twoLevelMap
TL == variant = "twoLevel" /\ ~panicked

\* Load, first half: RLock the map, fetch the lockingValue
twoLevelLoad(p) ==
    /\ TL
    /\ th[p].pc = "call" /\ th[p].op = "Load"
    /\ dbLock = None
    /\ LET lv == tdb[th[p].key] IN
         th' = IF lv = 0
               THEN Return(p, Miss)
               ELSE [th EXCEPT ![p].pc = "slot", ![p].lv = lv, ![p].ok = TRUE]
    /\ UNCHANGED <<cfg, it, hist, now, db, tdb, slots, dbLock, halted, cur, wg, detached,
                   reaped, nextVal, nops, panicked, want>>

\* Load, second half: RLock the lockingValue, check the expiry
twoLevelLoadSlot(p) ==
    /\ TL
    /\ th[p].pc = "slot" /\ th[p].op = "Load"
    /\ slots[th[p].lv].l = None
    /\ LET ev == slots[th[p].lv].ev IN
         th' = Return(p, IF Valid(ev, now) THEN Hit(ev) ELSE Miss)
    /\ UNCHANGED <<cfg, it, hist, now, db, tdb, slots, dbLock, halted, cur, wg, detached,
                   reaped, nextVal, nops, panicked, want>>

\* LoadStore and Store: RLock the map, fetch the lockingValue
twoLevelFind(p) ==
    /\ TL
    /\ th[p].pc = "call" /\ th[p].op \in {"LoadStore", "Store"}
    /\ dbLock = None
    /\ LET lv == tdb[th[p].key] IN
         th' = [th EXCEPT ![p].lv = lv, ![p].ok = (lv # 0),
                          ![p].pc = IF lv # 0 THEN "slot" ELSE "create"]
    /\ UNCHANGED <<cfg, it, hist, now, db, tdb, slots, dbLock, halted, cur, wg, detached,
                   reaped, nextVal, nops, panicked, want>>

\* LoadStore and Store: Lock the map, fetch again, allocate the lockingValue if
\* it is still missing
twoLevelCreate(p) ==
    /\ TL
    /\ th[p].pc = "create"
    /\ dbLock = None
    /\ LET k == th[p].key IN
         IF tdb[k] # 0
         THEN /\ th' = [th EXCEPT ![p].lv = tdb[k], ![p].ok = TRUE, ![p].pc = "slot"]
              /\ UNCHANGED <<tdb, slots>>
         ELSE /\ slots' = Append(slots, [ev |-> NilEV, l |-> None])
              /\ tdb' = [tdb EXCEPT ![k] = Len(slots) + 1]
              /\ th' = [th EXCEPT ![p].lv = Len(slots) + 1, ![p].ok = FALSE, ![p].pc = "slot"]
    /\ UNCHANGED <<cfg, it, hist, now, db, dbLock, halted, cur, wg, detached,
                   reaped, nextVal, nops, panicked, want>>

\* LoadStore: Lock the lockingValue; return a valid value, else spawn the reaper
\* on the old one and call lookup with the lock held
twoLevelLoadStoreLock(p) ==
    /\ TL
    /\ th[p].pc = "slot" /\ th[p].op = "LoadStore"
    /\ LET s == th[p].lv
           ev == slots[s].ev
       IN
         /\ slots[s].l = None
         /\ IF Valid(ev, now)
            THEN /\ th' = Return(p, Hit(ev))
                 /\ UNCHANGED <<slots, wg, panicked>>
            ELSE IF th[p].ok /\ reaperSet /\ ev.val = 0
            THEN /\ panicked' = TRUE               \* lv.ev.Value with lv.ev == nil
                 /\ th' = [th EXCEPT ![p].pc = "panic"]
                 /\ UNCHANGED <<slots, wg>>
            ELSE /\ slots' = [slots EXCEPT ![s].l = p]
                 /\ wg' = IF th[p].ok /\ reaperSet
                          THEN [wg EXCEPT ![p] = @ \cup {ev.val}] ELSE wg
                 /\ th' = [th EXCEPT ![p].pc = "lookup", ![p].did = TRUE]
                 /\ UNCHANGED panicked
    /\ UNCHANGED <<cfg, it, hist, now, db, tdb, dbLock, halted, cur, detached,
                   reaped, nextVal, nops, want>>

\* LoadStore: lookup returns; on error clear the slot and return without
\* wg.Wait(), else install the value
twoLevelLoadStoreLookup(p, out) ==
    /\ TL
    /\ th[p].pc = "lookup"
    /\ out \in LookupOutcomes
    /\ LET s == th[p].lv
           W == {q \in Procs \ {p} : th[q].op = "LoadStore" /\ th[q].pc = "slot" /\ th[q].lv = s}
       IN
         IF out.err # None
         THEN /\ slots' = [slots EXCEPT ![s].ev = NilEV, ![s].l = None]
              /\ detached' = detached \cup wg[p]
              /\ wg' = [wg EXCEPT ![p] = {}]
              /\ th' = MarkWaiters(Return(p, Failed(out.err)), W, -1)
              /\ want' = WantAfter(p, LookupFailed)
              /\ UNCHANGED <<nextVal, hist>>
         ELSE /\ slots' = [slots EXCEPT ![s].ev = newExpiringValue(out.arg, ttl)]
              /\ th' = MarkWaiters([th EXCEPT ![p].pc = "lswait", ![p].arg = out.arg], W, out.arg.val)
              /\ nextVal' = nextVal + 1
              /\ Installed(newExpiringValue(out.arg, ttl), th[p].key)
              /\ UNCHANGED <<detached, wg, want>>
    /\ UNCHANGED <<cfg, it, now, db, tdb, dbLock, halted, cur, reaped, nops, panicked>>

\* LoadStore: wg.Wait(), then the deferred Unlock and the return
twoLevelLoadStoreWait(p) ==
    /\ TL
    /\ th[p].pc = "lswait"
    /\ wg[p] = {}
    /\ slots' = [slots EXCEPT ![th[p].lv].l = None]
    /\ th' = Return(p, Fresh(th[p].arg))
    /\ want' = WantAfter(p, Looked(th[p].arg.val))
    /\ UNCHANGED <<cfg, it, hist, now, db, tdb, dbLock, halted, cur, wg, detached,
                   reaped, nextVal, nops, panicked>>

\* Store: Lock the lockingValue, spawn the reaper on the old value, install
twoLevelStoreLock(p) ==
    /\ TL
    /\ th[p].pc = "slot" /\ th[p].op = "Store"
    /\ LET s == th[p].lv
           ev == slots[s].ev
       IN
         /\ slots[s].l = None
         /\ IF th[p].ok /\ reaperSet /\ ev.val = 0
            THEN /\ panicked' = TRUE               \* lv.ev.Value with lv.ev == nil
                 /\ th' = [th EXCEPT ![p].pc = "panic"]
                 /\ UNCHANGED <<slots, wg, hist>>
            ELSE /\ slots' = [slots EXCEPT ![s].l = p, ![s].ev = newExpiringValue(th[p].arg, ttl)]
                 /\ wg' = IF th[p].ok /\ reaperSet
                          THEN [wg EXCEPT ![p] = @ \cup {ev.val}] ELSE wg
                 /\ th' = [th EXCEPT ![p].pc = "stwait"]
                 /\ Installed(newExpiringValue(th[p].arg, ttl), th[p].key)
                 /\ UNCHANGED panicked
    /\ UNCHANGED <<cfg, it, now, db, tdb, dbLock, halted, cur, detached,
                   reaped, nextVal, nops, want>>

\* Store: wg.Wait(), then the deferred Unlock and the return
twoLevelStoreWait(p) ==
    /\ TL
    /\ th[p].pc = "stwait"
    /\ wg[p] = {}
    /\ slots' = [slots EXCEPT ![th[p].lv].l = None]
    /\ th' = Return(p, NoRes)
    /\ want' = WantAfter(p, Stored(th[p].arg.val))
    /\ UNCHANGED <<cfg, it, hist, now, db, tdb, dbLock, halted, cur, wg, detached,
                   reaped, nextVal, nops, panicked>>

\* Delete: Lock the map, remove the key, Unlock
twoLevelDelete(p) ==
    /\ TL
    /\ th[p].pc = "call" /\ th[p].op = "Delete"
    /\ dbLock = None
    /\ LET k == th[p].key
           lv == tdb[k]
       IN
         /\ tdb' = [tdb EXCEPT ![k] = 0]
         /\ IF lv # 0 /\ reaperSet
            THEN /\ th' = [th EXCEPT ![p].pc = "delreap", ![p].lv = lv, ![p].ok = TRUE]
                 /\ UNCHANGED want
            ELSE /\ th' = Return(p, NoRes)
                 /\ want' = WantAfter(p, Absent)
    /\ UNCHANGED <<cfg, it, hist, now, db, slots, dbLock, halted, cur, wg, detached,
                   reaped, nextVal, nops, panicked>>

\* Delete: cgm.reaper(lv.ev.Value), reading the lockingValue without its lock
twoLevelDeleteReap(p) ==
    /\ TL
    /\ th[p].pc = "delreap"
    /\ LET ev == slots[th[p].lv].ev IN
         IF ev.val = 0
         THEN /\ panicked' = TRUE                  \* lv.ev.Value with lv.ev == nil
              /\ th' = [th EXCEPT ![p].pc = "panic"]
              /\ UNCHANGED <<reaped, want>>
         ELSE /\ reaped' = ReapAll(reaped, {ev.val})
              /\ th' = Return(p, NoRes)
              /\ want' = WantAfter(p, Absent)
              /\ UNCHANGED panicked
    /\ UNCHANGED <<cfg, it, hist, now, db, tdb, slots, dbLock, halted, cur, wg, detached,
                   nextVal, nops>>

\* GC: the capacity of the keys channel is len(cgm.db), read before the lock
twoLevelGCBegin(p) ==
    /\ TL
    /\ th[p].pc = "call" /\ th[p].op = "GC"
    /\ th' = [th EXCEPT ![p].pc = "gclock",
                        ![p].cap = Cardinality({k \in DOMAIN tdb : tdb[k] # 0})]
    /\ UNCHANGED <<cfg, it, hist, now, db, tdb, slots, dbLock, halted, cur, wg, detached,
                   reaped, nextVal, nops, panicked, want>>

\* GC: Lock the map, sample the clock, start one goroutine per lockingValue
twoLevelGCLock(p) ==
    /\ TL
    /\ th[p].pc = "gclock"
    /\ dbLock = None
    /\ dbLock' = p
    /\ th' = [th EXCEPT ![p].pc = "gcscan", ![p].gcnow = now, ![p].keys = {},
                        ![p].todo = {k \in DOMAIN tdb : tdb[k] # 0}]
    /\ UNCHANGED <<cfg, it, hist, now, db, tdb, slots, halted, cur, wg, detached,
                   reaped, nextVal, nops, panicked, want>>

\* GC: the goroutine of key k locks the lockingValue; an expired value is
\* queued for removal and reaped with the lock held.  With the keys channel
\* full the goroutine blocks on the send, holding the lock.
twoLevelGCSlot(p, k) ==
    /\ TL
    /\ th[p].pc = "gcscan"
    /\ k \in th[p].todo
    /\ LET s == tdb[k]
           ev == slots[s].ev
       IN
         /\ slots[s].l = None
         /\ IF ~Expired(ev, th[p].gcnow)
            THEN /\ th' = [th EXCEPT ![p].todo = @ \ {k}]
                 /\ UNCHANGED <<slots, reaped>>
            ELSE IF Cardinality(th[p].keys) < th[p].cap
            THEN /\ th' = [th EXCEPT ![p].todo = @ \ {k}, ![p].keys = @ \cup {k}]
                 /\ reaped' = IF reaperSet THEN ReapAll(reaped, {ev.val}) ELSE reaped
                 /\ UNCHANGED slots
            ELSE /\ slots' = [slots EXCEPT ![s].l = p]
                 /\ UNCHANGED <<th, reaped>>
    /\ UNCHANGED <<cfg, it, hist, now, db, tdb, dbLock, halted, cur, wg, detached,
                   nextVal, nops, panicked, want>>

\* GC: wg.Wait(), the key killer deletes the queued keys, Unlock the map
twoLevelGCEnd(p) ==
    /\ TL
    /\ th[p].pc = "gcscan"
    /\ th[p].todo = {}
    /\ tdb' = [k \in DOMAIN tdb |-> IF k \in th[p].keys THEN 0 ELSE tdb[k]]
    /\ dbLock' = None
    /\ th' = Return(p, NoRes)
    /\ UNCHANGED <<cfg, it, hist, now, db, slots, halted, cur, wg, detached,
                   reaped, nextVal, nops, panicked, want>>

\* run: the select takes `case <-cgm.halt`, the loop ends; Lock the map, delete every key and spawn the reaper on
\* lv.ev.Value of each lockingValue
twoLevelDrain ==
    /\ TL
    /\ th[Run].pc = "active" /\ halted /\ reaperSet
    /\ dbLock = None
    /\ LET present == {k \in Keys : tdb[k] # 0} IN
         IF \E k \in present : slots[tdb[k]].ev.val = 0
         THEN /\ panicked' = TRUE                  \* lv.ev.Value with lv.ev == nil
              /\ th' = [th EXCEPT ![Run].pc = "panic"]
              /\ UNCHANGED <<tdb, wg>>
         ELSE /\ tdb' = [k \in Keys |-> 0]
              /\ wg' = [wg EXCEPT ![Run] = {slots[tdb[k]].ev.val : k \in present}]
              /\ th' = [th EXCEPT ![Run].pc = "drainwait"]
              /\ UNCHANGED panicked
    /\ UNCHANGED <<cfg, it, hist, now, db, slots, dbLock, halted, cur, detached,
                   reaped, nextVal, nops, want>>

\* ================================================================ syncMutexMap
SM == variant = "syncMutex" /\ ~panicked

\* Load: RLock, ev, ok := db[key], RUnlock
syncMutexLoad(p) ==
    /\ SM
    /\ th[p].pc = "call" /\ th[p].op = "Load"
    /\ dbLock = None
    /\ th' = [th EXCEPT ![p].pc = "check", ![p].ev = db[th[p].key]]
    /\ UNCHANGED <<cfg, it, hist, now, db, tdb, slots, dbLock, halted, cur, wg, detached,
                   reaped, nextVal, nops, panicked, want>>

\* Load: the expiry check, made after the lock is released
syncMutexLoadCheck(p) ==
    /\ SM
    /\ th[p].pc = "check"
    /\ th' = Return(p, IF Valid(th[p].ev, now) THEN Hit(th[p].ev) ELSE Miss)
    /\ UNCHANGED <<cfg, it, hist, now, db, tdb, slots, dbLock, halted, cur, wg, detached,
                   reaped, nextVal, nops, panicked, want>>

\* Delete: Lock, remove the key, Unlock
syncMutexDelete(p) ==
    /\ SM
    /\ th[p].pc = "call" /\ th[p].op = "Delete"
    /\ dbLock = None
    /\ LET k == th[p].key IN
         /\ db' = [db EXCEPT ![k] = NilEV]
         /\ IF db[k].val # 0 /\ reaperSet
            THEN /\ th' = [th EXCEPT ![p].pc = "delreap", ![p].ev = db[k]]
                 /\ UNCHANGED want
            ELSE /\ th' = Return(p, NoRes)
                 /\ want' = WantAfter(p, Absent)
    /\ UNCHANGED <<cfg, it, hist, now, tdb, slots, dbLock, halted, cur, wg, detached,
                   reaped, nextVal, nops, panicked>>

\* Delete: cgm.reaper(ev.Value), called by the deleting goroutine
syncMutexDeleteReap(p) ==
    /\ SM
    /\ th[p].pc = "delreap"
    /\ reaped' = ReapAll(reaped, {th[p].ev.val})
    /\ th' = Return(p, NoRes)
    /\ want' = WantAfter(p, Absent)
    /\ UNCHANGED <<cfg, it, hist, now, db, tdb, slots, dbLock, halted, cur, wg, detached,
                   nextVal, nops, panicked>>

\* GC: Lock, delete every expired entry spawning its reaper, Unlock
syncMutexGC(p) ==
    /\ SM
    /\ th[p].pc = "call" /\ th[p].op = "GC"
    /\ dbLock = None
    /\ LET dead == {k \in DOMAIN db : Expired(db[k], now)} IN
         /\ db' = [k \in DOMAIN db |-> IF k \in dead THEN NilEV ELSE db[k]]
         /\ wg' = IF reaperSet THEN [wg EXCEPT ![p] = @ \cup {db[k].val : k \in dead}] ELSE wg
    /\ th' = [th EXCEPT ![p].pc = "gcwait"]
    /\ UNCHANGED <<cfg, it, hist, now, tdb, slots, dbLock, halted, cur, detached,
                   reaped, nextVal, nops, panicked, want>>

\* GC: wg.Wait()
syncMutexGCWait(p) ==
    /\ SM
    /\ th[p].pc = "gcwait"
    /\ wg[p] = {}
    /\ th' = Return(p, NoRes)
    /\ UNCHANGED <<cfg, it, hist, now, db, tdb, slots, dbLock, halted, cur, wg, detached,
                   reaped, nextVal, nops, panicked, want>>

\* syncMutexLoadStore without the test of the stored value: lookup is called
\* whatever the key holds, the fault the lookup frame property has to catch
syncMutexLoadStoreEager(p) ==
    /\ SM
    /\ th[p].pc = "call" /\ th[p].op = "LoadStore"
    /\ dbLock = None
    /\ LET ev == db[th[p].key] IN
         IF FALSE
         THEN /\ th' = Return(p, Hit(ev))
              /\ UNCHANGED <<dbLock, wg>>
         ELSE /\ dbLock' = p
              /\ wg' = IF ev.val # 0 /\ reaperSet
                       THEN [wg EXCEPT ![p] = @ \cup {ev.val}] ELSE wg
              /\ th' = [th EXCEPT ![p].pc = "lookup", ![p].did = TRUE]
    /\ UNCHANGED <<cfg, it, hist, now, db, tdb, slots, halted, cur, detached,
                   reaped, nextVal, nops, panicked, want>>

\* LoadStore: Lock; return a valid value, else spawn the reaper on the old one
\* and call lookup with the map locked
syncMutexLoadStore(p) ==
    /\ SM
    /\ th[p].pc = "call" /\ th[p].op = "LoadStore"
    /\ dbLock = None
    /\ LET ev == db[th[p].key] IN
         IF Valid(ev, now)
         THEN /\ th' = Return(p, Hit(ev))
              /\ UNCHANGED <<dbLock, wg>>
         ELSE /\ dbLock' = p
              /\ wg' = IF ev.val # 0 /\ reaperSet
                       THEN [wg EXCEPT ![p] = @ \cup {ev.val}] ELSE wg
              /\ th' = [th EXCEPT ![p].pc = "lookup", ![p].did = TRUE]
    /\ UNCHANGED <<cfg, it, hist, now, db, tdb, slots, halted, cur, detached,
                   reaped, nextVal, nops, panicked, want>>

\* LoadStore: lookup returns; on error the key is deleted, else the value is
\* installed
syncMutexLoadStoreLookup(p, out) ==
    /\ SM
    /\ th[p].pc = "lookup"
    /\ out \in LookupOutcomes
    /\ LET k == th[p].key
           W == {q \in Procs \ {p} : th[q].op = "LoadStore" /\ th[q].pc = "call" /\ th[q].key = k}
       IN
         IF out.err # None
         THEN /\ db' = [db EXCEPT ![k] = NilEV]
              /\ th' = MarkWaiters([th EXCEPT ![p].pc = "lswait", ![p].res = Failed(out.err)], W, -1)
              /\ UNCHANGED <<nextVal, hist>>
         ELSE /\ db' = [db EXCEPT ![k] = ensureExpiringValue(out.arg)]
              /\ th' = MarkWaiters([th EXCEPT ![p].pc = "lswait", ![p].arg = out.arg,
                                              ![p].res = Fresh(out.arg)], W, out.arg.val)
              /\ nextVal' = nextVal + 1
              /\ Installed(ensureExpiringValue(out.arg), k)
    /\ UNCHANGED <<cfg, it, now, tdb, slots, dbLock, halted, cur, wg, detached, reaped, nops,
                   panicked, want>>

\* LoadStore: the deferred wg.Wait(), then the deferred Unlock, then the return
syncMutexLoadStoreWait(p) ==
    /\ SM
    /\ th[p].pc = "lswait"
    /\ wg[p] = {}
    /\ dbLock' = None
    /\ th' = Return(p, th[p].res)
    /\ want' = WantAfter(p, IF th[p].res.err = None THEN Looked(th[p].res.val) ELSE LookupFailed)
    /\ UNCHANGED <<cfg, it, hist, now, db, tdb, slots, halted, cur, wg, detached,
                   reaped, nextVal, nops, panicked>>

\* Store: Lock, spawn the reaper on the old value, install, Unlock
syncMutexStore(p) ==
    /\ SM
    /\ th[p].pc = "call" /\ th[p].op = "Store"
    /\ dbLock = None
    /\ LET k == th[p].key
           ev == db[k]
       IN
         /\ wg' = IF ev.val # 0 /\ reaperSet
                  THEN [wg EXCEPT ![p] = @ \cup {ev.val}] ELSE wg
         /\ db' = [db EXCEPT ![k] = ensureExpiringValue(th[p].arg)]
         /\ Installed(ensureExpiringValue(th[p].arg), k)
    /\ th' = [th EXCEPT ![p].pc = "stwait"]
    /\ UNCHANGED <<cfg, it, now, tdb, slots, dbLock, halted, cur, detached,
                   reaped, nextVal, nops, panicked, want>>

\* Store: wg.Wait() and the return
syncMutexStoreWait(p) ==
    /\ SM
    /\ th[p].pc = "stwait"
    /\ wg[p] = {}
    /\ th' = Return(p, NoRes)
    /\ want' = WantAfter(p, Stored(th[p].arg.val))
    /\ UNCHANGED <<cfg, it, hist, now, db, tdb, slots, dbLock, halted, cur, wg, detached,
                   reaped, nextVal, nops, panicked>>

\* run: the select takes `case <-cgm.halt`, the loop ends; Lock the map, delete
\* every key and spawn its reaper; the lock is held until wg.Wait() returns
syncMutexDrain ==
    /\ SM
    /\ th[Run].pc = "active" /\ halted /\ reaperSet
    /\ dbLock = None
    /\ dbLock' = Run
    /\ db' = [k \in Keys |-> NilEV]
    /\ wg' = [wg EXCEPT ![Run] = {db[k].val : k \in {x \in Keys : db[x].val # 0}}]
    /\ th' = [th EXCEPT ![Run].pc = "drainwait"]
    /\ UNCHANGED <<cfg, it, hist, now, tdb, slots, halted, cur, detached,
                   reaped, nextVal, nops, panicked, want>>

\* ================================================================ syncAtomicMap
SA == variant = "syncAtomic" /\ ~panicked

\* copyNonExpiredData: the entries of m1 that have not expired; the reaper runs
\* on every other value before the function returns
copyNonExpiredData(m1) ==
    [m    |-> [k \in DOMAIN m1 |-> IF Valid(m1[k], now) THEN m1[k] ELSE NilEV],
     reap |-> IF reaperSet
              THEN {m1[k].val : k \in {x \in DOMAIN m1 : m1[x].val # 0 /\ ~Valid(m1[x], now)}}
              ELSE {}]

\* a Load that takes the writer mutex for its read: the fault the
\* load-never-blocks property has to catch
syncAtomicLoadLocked(p) ==
    /\ SA
    /\ th[p].pc = "call" /\ th[p].op = "Load"
    /\ dbLock = None
    /\ LET ev == db[th[p].key] IN
         th' = Return(p, IF Valid(ev, now) THEN Hit(ev) ELSE Miss)
    /\ UNCHANGED <<cfg, it, hist, now, db, tdb, slots, dbLock, halted, cur, wg, detached,
                   reaped, nextVal, nops, panicked, want>>

\* Load: one atomic read of the published map, then the expiry check
syncAtomicLoad(p) ==
    /\ SA
    /\ th[p].pc = "call" /\ th[p].op = "Load"
    /\ LET ev == db[th[p].key] IN
         th' = Return(p, IF Valid(ev, now) THEN Hit(ev) ELSE Miss)
    /\ UNCHANGED <<cfg, it, hist, now, db, tdb, slots, dbLock, halted, cur, wg, detached,
                   reaped, nextVal, nops, panicked, want>>

\* syncAtomicDelete publishing the copy with the key still in it: the fault
\* the delete-then-load property has to catch
syncAtomicDeleteKept(p) ==
    /\ SA
    /\ th[p].pc = "call" /\ th[p].op = "Delete"
    /\ dbLock = None
    /\ LET k == th[p].key
           c == copyNonExpiredData(db)
       IN
         /\ reaped' = IF reaperSet /\ c.m[k].val # 0
                      THEN ReapAll(ReapAll(reaped, c.reap), {c.m[k].val})
                      ELSE ReapAll(reaped, c.reap)
         /\ db' = c.m
    /\ th' = Return(p, NoRes)
    /\ want' = WantAfter(p, Absent)
    /\ UNCHANGED <<cfg, it, hist, now, tdb, slots, dbLock, halted, cur, wg, detached,
                   nextVal, nops, panicked>>

\* Delete: under the writer lock copy the live entries, reap the key's value,
\* publish the map without the key
syncAtomicDelete(p) ==
    /\ SA
    /\ th[p].pc = "call" /\ th[p].op = "Delete"
    /\ dbLock = None
    /\ LET k == th[p].key
           c == copyNonExpiredData(db)
       IN
         /\ reaped' = IF reaperSet /\ c.m[k].val # 0
                      THEN ReapAll(ReapAll(reaped, c.reap), {c.m[k].val})
                      ELSE ReapAll(reaped, c.reap)
         /\ db' = [c.m EXCEPT ![k] = NilEV]
    /\ th' = Return(p, NoRes)
    /\ want' = WantAfter(p, Absent)
    /\ UNCHANGED <<cfg, it, hist, now, tdb, slots, dbLock, halted, cur, wg, detached,
                   nextVal, nops, panicked>>

\* GC: under the writer lock publish the copy of the live entries
syncAtomicGC(p) ==
    /\ SA
    /\ th[p].pc = "call" /\ th[p].op = "GC"
    /\ dbLock = None
    /\ LET c == copyNonExpiredData(db) IN
         /\ reaped' = ReapAll(reaped, c.reap)
         /\ db' = c.m
    /\ th' = Return(p, NoRes)
    /\ UNCHANGED <<cfg, it, hist, now, tdb, slots, dbLock, halted, cur, wg, detached,
                   nextVal, nops, panicked, want>>

\* LoadStore: take the writer lock; return a valid value, else spawn the reaper
\* on the old one and call lookup with the lock held
syncAtomicLoadStore(p) ==
    /\ SA
    /\ th[p].pc = "call" /\ th[p].op = "LoadStore"
    /\ dbLock = None
    /\ LET ev == db[th[p].key] IN
         IF Valid(ev, now)
         THEN /\ th' = Return(p, Hit(ev))
              /\ UNCHANGED <<dbLock, wg>>
         ELSE /\ dbLock' = p
              /\ wg' = IF ev.val # 0 /\ reaperSet
                       THEN [wg EXCEPT ![p] = @ \cup {ev.val}] ELSE wg
              /\ th' = [th EXCEPT ![p].pc = "lookup", ![p].did = TRUE]
    /\ UNCHANGED <<cfg, it, hist, now, db, tdb, slots, halted, cur, detached,
                   reaped, nextVal, nops, panicked, want>>

\* LoadStore: lookup returns; on error Unlock, else publish
\* copyNonExpiredData(m1) with the new value and Unlock
syncAtomicLoadStoreLookup(p, out) ==
    /\ SA
    /\ th[p].pc = "lookup"
    /\ out \in LookupOutcomes
    /\ dbLock' = None
    /\ LET k == th[p].key
           c == copyNonExpiredData(db)
           W == {q \in Procs \ {p} : th[q].op = "LoadStore" /\ th[q].pc = "call" /\ th[q].key = k}
       IN
         IF out.err # None
         THEN /\ th' = MarkWaiters([th EXCEPT ![p].pc = "lswait", ![p].res = Failed(out.err)], W, -1)
              /\ UNCHANGED <<db, reaped, nextVal, hist>>
         ELSE /\ db' = [c.m EXCEPT ![k] = newExpiringValue(out.arg, ttl)]
              /\ reaped' = ReapAll(reaped, c.reap)
              /\ th' = MarkWaiters([th EXCEPT ![p].pc = "lswait", ![p].arg = out.arg,
                                              ![p].res = Fresh(out.arg)], W, out.arg.val)
              /\ nextVal' = nextVal + 1
              /\ Installed(newExpiringValue(out.arg, ttl), k)
    /\ UNCHANGED <<cfg, it, now, tdb, slots, halted, cur, wg, detached, nops, panicked, want>>

\* LoadStore: the deferred wg.Wait() and the return
syncAtomicLoadStoreWait(p) ==
    /\ SA
    /\ th[p].pc = "lswait"
    /\ wg[p] = {}
    /\ th' = Return(p, th[p].res)
    /\ want' = WantAfter(p, IF th[p].res.err = None THEN Looked(th[p].res.val) ELSE LookupFailed)
    /\ UNCHANGED <<cfg, it, hist, now, db, tdb, slots, dbLock, halted, cur, wg, detached,
                   reaped, nextVal, nops, panicked>>

\* Store: under the writer lock copy the live entries, spawn the reaper on the
\* key's value, publish the map with the new value
syncAtomicStore(p) ==
    /\ SA
    /\ th[p].pc = "call" /\ th[p].op = "Store"
    /\ dbLock = None
    /\ LET k == th[p].key
           c == copyNonExpiredData(db)
       IN
         /\ reaped' = ReapAll(reaped, c.reap)
         /\ wg' = IF c.m[k].val # 0 /\ reaperSet
                  THEN [wg EXCEPT ![p] = @ \cup {c.m[k].val}] ELSE wg
         /\ db' = [c.m EXCEPT ![k] = newExpiringValue(th[p].arg, ttl)]
         /\ Installed(newExpiringValue(th[p].arg, ttl), k)
    /\ th' = [th EXCEPT ![p].pc = "stwait"]
    /\ UNCHANGED <<cfg, it, now, tdb, slots, dbLock, halted, cur, detached,
                   nextVal, nops, panicked, want>>

\* Store: wg.Wait() and the return
syncAtomicStoreWait(p) ==
    /\ SA
    /\ th[p].pc = "stwait"
    /\ wg[p] = {}
    /\ th' = Return(p, NoRes)
    /\ want' = WantAfter(p, Stored(th[p].arg.val))
    /\ UNCHANGED <<cfg, it, hist, now, db, tdb, slots, dbLock, halted, cur, wg, detached,
                   reaped, nextVal, nops, panicked>>

\* run: the select takes `case <-cgm.halt`, the loop ends; the reaper is spawned
\* on every value of the published map, which stays published
syncAtomicDrain ==
    /\ SA
    /\ th[Run].pc = "active" /\ halted /\ reaperSet
    /\ wg' = [wg EXCEPT ![Run] = {db[k].val : k \in {x \in Keys : db[x].val # 0}}]
    /\ th' = [th EXCEPT ![Run].pc = "drainwait"]
    /\ UNCHANGED <<cfg, it, hist, now, db, tdb, slots, dbLock, halted, cur, detached,
                   reaped, nextVal, nops, panicked, want>>

\* ================================================================ channelMap
CH == variant = "channel" /\ ~panicked

\* run: the select takes `case fn := <-cgm.queue`: the send of caller p completes.
\* Delete returns at once; the other callers go on to wait for the closure.
channelRecv(p) ==
    /\ CH
    /\ th[Run].pc = "active" /\ cur = NoFn
    /\ th[p].pc = "call"
    /\ cur' = [op |-> th[p].op, key |-> th[p].key, arg |-> th[p].arg, from |-> p, run |-> "fn"]
    /\ IF th[p].op = "Delete"
       THEN /\ th' = Return(p, NoRes)
            /\ want' = WantAfter(p, Absent)
       ELSE /\ th' = [th EXCEPT ![p].pc = "sent", ![p].lv = 1]
            /\ UNCHANGED want
    /\ UNCHANGED <<cfg, it, hist, now, db, tdb, slots, dbLock, halted, wg, detached,
                   reaped, nextVal, nops, panicked>>

\* the owner runs the closure of Delete: the reaper is called by the owner
channelDelete ==
    /\ CH
    /\ cur.op = "Delete"
    /\ reaped' = IF db[cur.key].val # 0 /\ reaperSet
                 THEN ReapAll(reaped, {db[cur.key].val}) ELSE reaped
    /\ db' = [db EXCEPT ![cur.key] = NilEV]
    /\ cur' = NoFn
    /\ UNCHANGED <<cfg, it, hist, now, tdb, slots, dbLock, halted, th, wg, detached,
                   nextVal, nops, panicked, want>>

\* the owner runs the closure of GC: expired entries are deleted and their
\* reapers spawned on the WaitGroup of the GC call, which may have returned
channelGC ==
    /\ CH
    /\ cur.op = "GC"
    /\ LET dead == {k \in DOMAIN db : Expired(db[k], now)}
           vs == IF reaperSet THEN {db[k].val : k \in dead} ELSE {}
           p == cur.from
       IN
         /\ db' = [k \in DOMAIN db |-> IF k \in dead THEN NilEV ELSE db[k]]
         /\ IF th[p].pc = "sent"
            THEN wg' = [wg EXCEPT ![p] = @ \cup vs] /\ UNCHANGED detached
            ELSE detached' = detached \cup vs /\ UNCHANGED wg
         /\ th' = IF th[p].pc = "sent" THEN [th EXCEPT ![p].lv = 0] ELSE th
    /\ cur' = NoFn
    /\ UNCHANGED <<cfg, it, hist, now, tdb, slots, dbLock, halted,
                   reaped, nextVal, nops, panicked, want>>

\* GC: wg.Wait() after the send; nothing makes it wait for the closure
channelGCWait(p) ==
    /\ CH
    /\ th[p].pc = "sent" /\ th[p].op = "GC"
    /\ wg[p] = {}
    /\ th' = Return(p, NoRes)
    /\ UNCHANGED <<cfg, it, hist, now, db, tdb, slots, dbLock, halted, cur, wg, detached,
                   reaped, nextVal, nops, panicked, want>>

\* the owner runs the closure of Load and hands the result over rq
channelLoad ==
    /\ CH
    /\ cur.op = "Load"
    /\ LET ev == db[cur.key] IN
         th' = Return(cur.from, IF Valid(ev, now) THEN Hit(ev) ELSE Miss)
    /\ cur' = NoFn
    /\ UNCHANGED <<cfg, it, hist, now, db, tdb, slots, dbLock, halted, wg, detached,
                   reaped, nextVal, nops, panicked, want>>

\* the owner runs the closure of LoadStore: a valid value is handed over rq,
\* else the owner calls lookup
channelLoadStore ==
    /\ CH
    /\ cur.op = "LoadStore" /\ cur.run = "fn"
    /\ LET ev == db[cur.key] IN
         IF Valid(ev, now)
         THEN /\ th' = Return(cur.from, Hit(ev))
              /\ cur' = NoFn
         ELSE /\ th' = [th EXCEPT ![cur.from].did = TRUE]
              /\ cur' = [cur EXCEPT !.run = "lookup"]
    /\ UNCHANGED <<cfg, it, hist, now, db, tdb, slots, dbLock, halted, wg, detached,
                   reaped, nextVal, nops, panicked, want>>

\* lookup returns to the owner; on error the result goes over rq at once, else
\* the reaper is spawned on the old value and the new one installed
channelLoadStoreLookup(out) ==
    /\ CH
    /\ cur.op = "LoadStore" /\ cur.run = "lookup"
    /\ out \in LookupOutcomes
    /\ LET k == cur.key
           p == cur.from
           ev == db[k]
           W == {q \in Procs \ {p} : th[q].op = "LoadStore" /\ th[q].pc = "call" /\ th[q].key = k}
       IN
         IF out.err # None
         THEN /\ th' = MarkWaiters([th EXCEPT ![p].pc = "lswait", ![p].res = Failed(out.err)], W, -1)
              /\ UNCHANGED <<db, wg, nextVal, hist>>
         ELSE /\ wg' = IF ev.val # 0 /\ reaperSet
                       THEN [wg EXCEPT ![p] = @ \cup {ev.val}] ELSE wg
              /\ db' = [db EXCEPT ![k] = ensureExpiringValue(out.arg)]
              /\ th' = MarkWaiters([th EXCEPT ![p].pc = "lswait", ![p].arg = out.arg,
                                              ![p].res = Fresh(out.arg)], W, out.arg.val)
              /\ nextVal' = nextVal + 1
              /\ Installed(ensureExpiringValue(out.arg), k)
    /\ cur' = NoFn
    /\ UNCHANGED <<cfg, it, now, tdb, slots, dbLock, halted, detached, reaped, nops,
                   panicked, want>>

\* LoadStore: res := <-rq was received; wg.Wait() and the return
channelLoadStoreWait(p) ==
    /\ CH
    /\ th[p].pc = "lswait"
    /\ wg[p] = {}
    /\ th' = Return(p, th[p].res)
    /\ want' = WantAfter(p, IF th[p].res.err = None THEN Looked(th[p].res.val) ELSE LookupFailed)
    /\ UNCHANGED <<cfg, it, hist, now, db, tdb, slots, dbLock, halted, cur, wg, detached,
                   reaped, nextVal, nops, panicked>>

\* the owner runs the closure of Store: the reaper is spawned on the old value,
\* the new one installed, wg.Done() called
channelStore ==
    /\ CH
    /\ cur.op = "Store"
    /\ LET k == cur.key
           p == cur.from
           ev == db[k]
       IN
         /\ wg' = IF ev.val # 0 /\ reaperSet
                  THEN [wg EXCEPT ![p] = @ \cup {ev.val}] ELSE wg
         /\ db' = [db EXCEPT ![k] = ensureExpiringValue(cur.arg)]
         /\ Installed(ensureExpiringValue(cur.arg), k)
         /\ th' = [th EXCEPT ![p].lv = 0]
    /\ cur' = NoFn
    /\ UNCHANGED <<cfg, it, now, tdb, slots, dbLock, halted, detached,
                   reaped, nextVal, nops, panicked, want>>

\* Store: wg.Wait() returns once the closure and the reaper are done
channelStoreWait(p) ==
    /\ CH
    /\ th[p].pc = "sent" /\ th[p].op = "Store"
    /\ th[p].lv = 0 /\ wg[p] = {}
    /\ th' = Return(p, NoRes)
    /\ want' = WantAfter(p, Stored(th[p].arg.val))
    /\ UNCHANGED <<cfg, it, hist, now, db, tdb, slots, dbLock, halted, cur, wg, detached,
                   reaped, nextVal, nops, panicked>>

\* run: the select takes `case <-cgm.halt`, the loop ends; every key is deleted
\* and its reaper spawned
channelDrain ==
    /\ CH
    /\ th[Run].pc = "active" /\ cur = NoFn /\ halted /\ reaperSet
    /\ db' = [k \in Keys |-> NilEV]
    /\ wg' = [wg EXCEPT ![Run] = {db[k].val : k \in {x \in Keys : db[x].val # 0}}]
    /\ th' = [th EXCEPT ![Run].pc = "drainwait"]
    /\ UNCHANGED <<cfg, it, hist, now, tdb, slots, dbLock, halted, cur, detached,
                   reaped, nextVal, nops, panicked, want>>

\* ================================================================ shared by the variants
\* value v is what some key of the map holds
Reachable(v) ==
    IF variant = "twoLevel"
    THEN \E k \in Keys : tdb[k] # 0 /\ slots[tdb[k]].ev.val = v
    ELSE \E k \in Keys : db[k].val = v

\* no call, closure or reaper goroutine is running and nothing has panicked
Quiescent ==
    /\ ~panicked
    /\ \A p \in Procs : th[p].pc \in {"idle", "done"}
    /\ th[Run].pc \in {"active", "exited"}
    /\ cur = NoFn
    /\ \A p \in AllProcs : wg[p] = {}
    /\ detached = {}

\* Close: close(cgm.halt); return nil.  The call is one step of its caller.
Close(p) ==
    /\ ~panicked
    /\ ~halted
    /\ th[p].pc \in {"idle", "done"}
    /\ nops < MaxOps
    /\ nops' = nops + 1
    /\ halted' = TRUE
    /\ th' = [q \in AllProcs |->
                IF q = p
                THEN [th[p] EXCEPT !.pc = "done", !.op = "Close", !.key = None, !.arg = NoArg,
                          !.res = NoRes, !.did = FALSE, !.t0 = 0, !.expect = Unknown,
                          !.clean = FALSE, !.waited = 0]
                ELSE [th[q] EXCEPT !.clean = FALSE, !.expect = Unknown]]
    /\ want' = [k \in Keys |-> Unknown]
    /\ atClose' = [quiet |-> Quiescent, vals |-> {v \in Vals : Reachable(v)}, reaped |-> reaped]
    /\ UNCHANGED <<cfg, it, valExp, valKey, now, db, tdb, slots, dbLock, cur, wg, detached,
                   reaped, nextVal, panicked>>

\* run: the period of the sweeper, in ticks.  syncMutexMap sweeps every five
\* TTLs; the other variants, and syncMutexMap without a TTL, sweep at a
\* fixed period (a minute, fifteen minutes, an hour), which the model takes
\* to be one tick.
duration == IF variant = "syncMutex" /\ ttlEnabled THEN 5 * ttl ELSE 1

\* run: the select takes `case <-time.After(duration)`, the timer started
\* when the loop last came round, and calls cgm.GC().  In the channel
\* variant GC sends on cgm.queue, which only this goroutine receives from:
\* the send never completes.
runTick ==
    /\ ~panicked
    /\ th[Run].pc = "active" /\ cur = NoFn
    /\ now >= th[Run].t0 + duration
    /\ th' = IF variant = "channel"
             THEN [th EXCEPT ![Run].pc = "gcsend", ![Run].op = "GC"]
             ELSE [th EXCEPT ![Run].pc = "call", ![Run].op = "GC"]
    /\ UNCHANGED <<cfg, it, hist, now, db, tdb, slots, dbLock, halted, cur, wg, detached,
                   reaped, nextVal, nops, panicked, want>>

\* run: the select takes `case <-cgm.halt`, the loop ends; with no reaper
\* there is nothing left to do
runHalt ==
    /\ ~panicked
    /\ th[Run].pc = "active" /\ cur = NoFn
    /\ halted /\ ~reaperSet
    /\ th' = [th EXCEPT ![Run].pc = "exited"]
    /\ UNCHANGED <<cfg, it, hist, now, db, tdb, slots, dbLock, halted, cur, wg, detached,
                   reaped, nextVal, nops, panicked, want>>

\* run: the wg.Wait() that ends the drain
runDrainWait ==
    /\ ~panicked
    /\ th[Run].pc = "drainwait"
    /\ wg[Run] = {}
    /\ dbLock' = IF variant = "syncMutex" THEN None ELSE dbLock
    /\ th' = [th EXCEPT ![Run].pc = "exited"]
    /\ UNCHANGED <<cfg, it, hist, now, db, tdb, slots, halted, cur, wg, detached,
                   reaped, nextVal, nops, panicked, want>>

\* ================================================================ specifications
\* twoLevelMap, but for the return of a LoadStore whose lookup succeeded
NextTwoLevelRest ==
    \/ \E p \in Procs : \/ twoLevelLoad(p) \/ twoLevelLoadSlot(p)
                        \/ twoLevelFind(p) \/ twoLevelCreate(p)
                        \/ twoLevelLoadStoreLock(p)
                        \/ \E out \in LookupOutcomes : twoLevelLoadStoreLookup(p, out)
                        \/ twoLevelStoreLock(p) \/ twoLevelStoreWait(p)
                        \/ twoLevelDelete(p) \/ twoLevelDeleteReap(p)
    \/ \E p \in AllProcs : \/ twoLevelGCBegin(p) \/ twoLevelGCLock(p)
                           \/ \E k \in Keys : twoLevelGCSlot(p, k)
                           \/ twoLevelGCEnd(p)

NextTwoLevel ==
    \/ NextTwoLevelRest
    \/ \E p \in Procs : twoLevelLoadStoreWait(p)

NextShared ==
    \/ \E p \in Procs, o \in Ops, k \in Keys, w \in Wraps : Call(p, o, k, w)
    \/ Tick
    \/ \E p \in AllProcs, v \in Vals : ReaperRun(p, v)
    \/ \E v \in Vals : DetachedReaperRun(v)
    \/ runTick

NextSyncMutex ==
    \/ \E p \in Procs : \/ syncMutexLoad(p) \/ syncMutexLoadCheck(p)
                        \/ syncMutexDelete(p) \/ syncMutexDeleteReap(p)
                        \/ syncMutexLoadStore(p)
                        \/ \E out \in LookupOutcomes : syncMutexLoadStoreLookup(p, out)
                        \/ syncMutexLoadStoreWait(p)
                        \/ syncMutexStore(p) \/ syncMutexStoreWait(p)
    \/ \E p \in AllProcs : syncMutexGC(p) \/ syncMutexGCWait(p)

NextSyncAtomic ==
    \/ \E p \in Procs : \/ syncAtomicLoad(p) \/ syncAtomicDelete(p)
                        \/ syncAtomicLoadStore(p)
                        \/ \E out \in LookupOutcomes : syncAtomicLoadStoreLookup(p, out)
                        \/ syncAtomicLoadStoreWait(p)
                        \/ syncAtomicStore(p) \/ syncAtomicStoreWait(p)
    \/ \E p \in AllProcs : syncAtomicGC(p)

NextChannel ==
    \/ \E p \in Procs : \/ channelRecv(p) \/ channelGCWait(p)
                        \/ channelLoadStoreWait(p) \/ channelStoreWait(p)
    \/ channelDelete \/ channelGC \/ channelLoad \/ channelLoadStore
    \/ \E out \in LookupOutcomes : channelLoadStoreLookup(out)
    \/ channelStore

\* Close, and what the run goroutine does once the halt channel is closed
NextClose ==
    \/ \E p \in Procs : Close(p)
    \/ runHalt \/ runDrainWait
    \/ twoLevelDrain \/ syncMutexDrain \/ syncAtomicDrain \/ channelDrain

Next == NextShared \/ NextTwoLevel \/ NextSyncMutex \/ NextSyncAtomic \/ NextChannel

\* the map while it is open
Spec == Init /\ [][Next]_vars

\* the map with Close called at any moment
SpecClose == Init /\ [][Next \/ NextClose]_vars

\* with no lookup callback the default one always fails: no LoadStore ever
\* installs a value, and twoLevelMap.LoadStore never gets past its lookup
NextNoLookup == NextShared \/ NextTwoLevelRest \/ NextSyncMutex \/ NextSyncAtomic \/ NextChannel

\* the map built without the Lookup option, while it is open
SpecNoLookup == InitNoLookup /\ [][NextNoLookup]_vars

\* the call of the constructor
SpecNew == InitNew /\ [][New]_vars


\* the workload of testRace: the map is built with a lookup and a TTL and
\* without a reaper
InitRace ==
    /\ variant \in Variants
    /\ reaperSet = FALSE
    /\ lookupSet = TRUE
    /\ ttl = 1
    /\ ctor = Returned(lookupSet, reaperSet, ttl)
    /\ Allocated("active")

\* testRace: the tasks call Delete and LoadStore, nothing else
CallRace(p, o, k) ==
    /\ o \in {"Delete", "LoadStore"}
    /\ Call(p, o, k, NoWrap)

\* the steps of the tasks of testRace and of the sweeper
RaceSteps ==
    \/ runTick
    \/ \E p \in Procs : \/ twoLevelFind(p) \/ twoLevelCreate(p)
                        \/ twoLevelLoadStoreLock(p)
                        \/ \E out \in LookupOutcomes : twoLevelLoadStoreLookup(p, out)
                        \/ twoLevelLoadStoreWait(p)
                        \/ twoLevelDelete(p)
    \/ twoLevelGCBegin(Run) \/ twoLevelGCLock(Run)
    \/ \E k \in Keys : twoLevelGCSlot(Run, k)
    \/ twoLevelGCEnd(Run)
    \/ \E p \in Procs : \/ syncMutexDelete(p)
                        \/ syncMutexLoadStore(p)
                        \/ \E out \in LookupOutcomes : syncMutexLoadStoreLookup(p, out)
                        \/ syncMutexLoadStoreWait(p)
    \/ \E p \in Procs : \/ syncAtomicDelete(p)
                        \/ syncAtomicLoadStore(p)
                        \/ \E out \in LookupOutcomes : syncAtomicLoadStoreLookup(p, out)
                        \/ syncAtomicLoadStoreWait(p)
    \/ syncAtomicGC(Run)
    \/ \E p \in Procs : channelRecv(p) \/ channelLoadStoreWait(p)
    \/ channelDelete \/ channelLoadStore
    \/ \E out \in LookupOutcomes : channelLoadStoreLookup(out)

NextRace ==
    \/ \E p \in Procs, o \in Ops, k \in Keys : CallRace(p, o, k)
    \/ Tick
    \/ RaceSteps

\* testRace on each of the four maps
SpecRace == InitRace /\ [][NextRace]_vars


\* ================================================================ Pairs
\* a caller calls Pairs; one iteration is followed per run
CallPairs(p) ==
    /\ ~panicked
    /\ ~halted
    /\ th[p].pc \in {"idle", "done"}
    /\ nops < MaxOps
    /\ it.pc = None
    /\ nops' = nops + 1
    /\ th' = [th EXCEPT ![p] = [@ EXCEPT !.pc = "call", !.op = "Pairs", !.key = None,
                                         !.arg = NoArg, !.lv = 0, !.ok = FALSE, !.ev = NilEV,
                                         !.res = NoRes, !.did = FALSE, !.t0 = 0,
                                         !.expect = Unknown, !.clean = FALSE, !.waited = 0,
                                         !.todo = {}, !.cap = 0, !.gcnow = 0, !.keys = {}]]
    /\ it' = [NoIt EXCEPT !.pc = "call", !.from = p, !.nops = nops + 1,
                          !.alone = /\ \A q \in Procs \ {p} : th[q].pc \in {"idle", "done"}
                                    /\ cur = NoFn]
    /\ UNCHANGED <<cfg, hist, now, db, tdb, slots, dbLock, halted, cur, wg, detached,
                   reaped, nextVal, panicked, want>>

\* the pairs sent for the entries of m that are valid at time t, in the
\* order the range over the map takes them
PairsOf(m, t) ==
    LET K == {k \in DOMAIN m : Valid(m[k], t)} IN
      CHOOSE q \in [1..Cardinality(K) -> [key : K, val : Vals]] :
          \A k \in K : \E i \in 1..Cardinality(K) : q[i] = [key |-> k, val |-> m[k].val]

\* twoLevelMap.Pairs: RLock the map, copy the keys and the lockingValues,
\* start the goroutine, return the channel
twoLevelPairs(p) ==
    /\ TL
    /\ th[p].pc = "call" /\ th[p].op = "Pairs"
    /\ dbLock = None
    /\ it' = [it EXCEPT !.pc = "spawned", !.at = now,
                        !.snap = [k \in {x \in Keys : tdb[x] # 0} |-> tdb[k]]]
    /\ th' = [th EXCEPT ![p].pc = "range"]
    /\ UNCHANGED <<cfg, hist, now, db, tdb, slots, dbLock, halted, cur, wg, detached,
                   reaped, nextVal, nops, panicked, want>>

\* syncMutexMap.Pairs: RLock the map, copy the keys and the *ExpiringValues,
\* start the goroutine, return the channel
syncMutexPairs(p) ==
    /\ SM
    /\ th[p].pc = "call" /\ th[p].op = "Pairs"
    /\ dbLock = None
    /\ it' = [it EXCEPT !.pc = "spawned", !.at = now,
                        !.snap = [k \in {x \in Keys : db[x].val # 0} |-> db[k]]]
    /\ th' = [th EXCEPT ![p].pc = "range"]
    /\ UNCHANGED <<cfg, hist, now, db, tdb, slots, dbLock, halted, cur, wg, detached,
                   reaped, nextVal, nops, panicked, want>>

\* twoLevelMap and syncMutexMap: the goroutine of Pairs starts: it samples
\* the clock and starts one goroutine per key
PairsNow ==
    /\ ~panicked
    /\ variant \in {"twoLevel", "syncMutex"}
    /\ it.pc = "spawned"
    /\ it' = [it EXCEPT !.pc = "scan", !.now = now, !.todo = DOMAIN it.snap]
    /\ UNCHANGED <<cfg, hist, now, db, tdb, slots, dbLock, halted, th, cur, wg, detached,
                   reaped, nextVal, nops, panicked, want>>

\* twoLevelMap.Pairs: the goroutine of key k locks the lockingValue and sends
\* the pair if the value is there and valid at the time sampled before
twoLevelPairsSlot(k) ==
    /\ TL
    /\ it.pc = "scan" /\ k \in it.todo
    /\ slots[it.snap[k]].l = None
    /\ LET ev == slots[it.snap[k]].ev IN
         it' = [it EXCEPT !.todo = @ \ {k},
                          !.out = IF Valid(ev, it.now)
                                  THEN Append(@, [key |-> k, val |-> ev.val]) ELSE @]
    /\ UNCHANGED <<cfg, hist, now, db, tdb, slots, dbLock, halted, th, cur, wg, detached,
                   reaped, nextVal, nops, panicked, want>>

\* syncMutexMap.Pairs: the goroutine of key k sends the pair if the copied
\* value is valid at the time sampled before
syncMutexPairsEntry(k) ==
    /\ SM
    /\ it.pc = "scan" /\ k \in it.todo
    /\ LET ev == it.snap[k] IN
         it' = [it EXCEPT !.todo = @ \ {k},
                          !.out = IF Valid(ev, it.now)
                                  THEN Append(@, [key |-> k, val |-> ev.val]) ELSE @]
    /\ UNCHANGED <<cfg, hist, now, db, tdb, slots, dbLock, halted, th, cur, wg, detached,
                   reaped, nextVal, nops, panicked, want>>

\* twoLevelMap and syncMutexMap: wg.Wait(), close(pairs): the range of the
\* caller ends
PairsClose ==
    /\ ~panicked
    /\ variant \in {"twoLevel", "syncMutex"}
    /\ it.pc = "scan" /\ it.todo = {}
    /\ it' = [it EXCEPT !.pc = "closed"]
    /\ th' = Return(it.from, NoRes)
    /\ UNCHANGED <<cfg, hist, now, db, tdb, slots, dbLock, halted, cur, wg, detached,
                   reaped, nextVal, nops, panicked, want>>

\* syncAtomicMap.Pairs: start the goroutine, return the channel
syncAtomicPairs(p) ==
    /\ SA
    /\ th[p].pc = "call" /\ th[p].op = "Pairs"
    /\ it' = [it EXCEPT !.pc = "spawned"]
    /\ th' = [th EXCEPT ![p].pc = "range"]
    /\ UNCHANGED <<cfg, hist, now, db, tdb, slots, dbLock, halted, cur, wg, detached,
                   reaped, nextVal, nops, panicked, want>>

\* syncAtomicMap.Pairs, the goroutine: Lock the writer mutex, load the map,
\* sample the clock, send the pairs of the valid entries to the caller
syncAtomicPairsScan ==
    /\ SA
    /\ it.pc = "spawned"
    /\ dbLock = None
    /\ dbLock' = "pairs"
    /\ LET m == [k \in {x \in Keys : db[x].val # 0} |-> db[k]] IN
         it' = [it EXCEPT !.pc = "scan", !.snap = m, !.now = now, !.out = PairsOf(m, now)]
    /\ UNCHANGED <<cfg, hist, now, db, tdb, slots, halted, th, cur, wg, detached,
                   reaped, nextVal, nops, panicked, want>>

\* syncAtomicMap.Pairs, the goroutine: close(pairs), the deferred Unlock
syncAtomicPairsClose ==
    /\ SA
    /\ it.pc = "scan"
    /\ dbLock' = None
    /\ it' = [it EXCEPT !.pc = "closed"]
    /\ th' = Return(it.from, NoRes)
    /\ UNCHANGED <<cfg, hist, now, db, tdb, slots, halted, cur, wg, detached,
                   reaped, nextVal, nops, panicked, want>>

\* channelMap.Pairs: the owner runs the closure: it samples the clock and
\* sends the pairs of the valid entries to the caller
channelPairs ==
    /\ CH
    /\ cur.op = "Pairs" /\ cur.run = "fn"
    /\ LET m == [k \in {x \in Keys : db[x].val # 0} |-> db[k]] IN
         it' = [it EXCEPT !.pc = "scan", !.snap = m, !.now = now, !.out = PairsOf(m, now)]
    /\ cur' = [cur EXCEPT !.run = "pairs"]
    /\ UNCHANGED <<cfg, hist, now, db, tdb, slots, dbLock, halted, th, wg, detached,
                   reaped, nextVal, nops, panicked, want>>

\* channelMap.Pairs: the closure ends with close(pairs)
channelPairsClose ==
    /\ CH
    /\ cur.op = "Pairs" /\ cur.run = "pairs"
    /\ it' = [it EXCEPT !.pc = "closed"]
    /\ th' = Return(it.from, NoRes)
    /\ cur' = NoFn
    /\ UNCHANGED <<cfg, hist, now, db, tdb, slots, dbLock, halted, wg, detached,
                   reaped, nextVal, nops, panicked, want>>

\* the steps of a Pairs iteration
PairsSteps ==
    \/ \E p \in Procs : twoLevelPairs(p) \/ syncMutexPairs(p) \/ syncAtomicPairs(p)
    \/ PairsNow \/ PairsClose
    \/ \E k \in Keys : twoLevelPairsSlot(k) \/ syncMutexPairsEntry(k)
    \/ syncAtomicPairsScan \/ syncAtomicPairsClose
    \/ channelPairs \/ channelPairsClose

\* the steps of Store and Load on a map without a reaper
StoreLoadSteps ==
    \/ \E p \in Procs : \/ twoLevelStoreLock(p) \/ twoLevelStoreWait(p)
                        \/ syncMutexStore(p) \/ syncMutexStoreWait(p)
                        \/ syncAtomicStore(p) \/ syncAtomicStoreWait(p)
                        \/ channelStoreWait(p)
                        \/ twoLevelLoad(p) \/ twoLevelLoadSlot(p)
                        \/ syncMutexLoad(p) \/ syncMutexLoadCheck(p)
                        \/ syncAtomicLoad(p)
    \/ channelStore \/ channelLoad

NextPairs ==
    \/ \E p \in Procs : CallPairs(p)
    \/ \E p \in Procs, o \in Ops \ {"GC"}, k \in Keys : Call(p, o, k, NoWrap)
    \/ Tick
    \/ RaceSteps
    \/ StoreLoadSteps
    \/ PairsSteps

\* a map with a lookup and a TTL, and the calls that may run while a caller
\* ranges over Pairs
SpecPairs == InitRace /\ [][NextPairs]_vars


\* ================================================================ a lookup that calls LoadStore
\* The example program: a twoLevelMap whose lookup computes the
\* Fibonacci series by calling LoadStore on the two keys below its own.  The
\* goroutine main asks for FibKey (10 in the program); a second goroutine
\* issues at most one call on one of the keys FibOthers; the sweeper of run()
\* goes round.
FibKey    == 5
FibKeys   == 0..FibKey
FibOthers == {0, FibKey - 2}
FibCalls  == 2
Main      == "p1"

\* strconv.Itoa / strconv.Atoi: the map is keyed by the decimal string of n
Itoa(n) == IF n < 10 THEN <<n>> ELSE <<n \div 10, n % 10>>
Atoi(s) == IF Len(s) = 1 THEN s[1] ELSE 10 * s[1] + s[2]
FibStrs == {Itoa(n) : n \in FibKeys}

\* a map built with the Lookup option only, and the goroutines of the program
FibAllocated ==
    /\ reaperSet = FALSE
    /\ lookupSet = TRUE
    /\ ttl = 0
    /\ ctor = Returned(lookupSet, reaperSet, ttl)
    /\ now = 1
    /\ db = [k \in FibStrs |-> NilEV]
    /\ tdb = [k \in FibStrs |-> 0]
    /\ slots = << >>
    /\ dbLock = None
    /\ halted = FALSE
    /\ th = [p \in AllProcs |->
               [pc |-> IF p = Run THEN "active" ELSE "idle", op |-> None, key |-> None,
                arg |-> NoArg, lv |-> 0, ok |-> FALSE, ev |-> NilEV, res |-> NoRes,
                t0 |-> IF p = Run THEN 1 ELSE 0,
                did |-> FALSE, expect |-> Unknown, todo |-> {}, cap |-> 0,
                gcnow |-> 0, keys |-> {}, clean |-> FALSE, waited |-> 0,
                stack |-> << >>]]
    /\ cur = NoFn
    /\ wg = [p \in AllProcs |-> {}]
    /\ detached = {}
    /\ reaped = [v \in Vals |-> 0]
    /\ nextVal = 1
    /\ nops = 0
    /\ panicked = FALSE
    /\ valExp = [v \in Vals |-> 0]
    /\ valKey = [v \in Vals |-> None]
    /\ want = [k \in Keys |-> Unknown]
    /\ atClose = NotClosed
    /\ it = NoIt

\* NewTwoLevelMap with the Lookup option only
InitFib ==
    /\ variant = "twoLevel"
    /\ FibAllocated

\* the locals of a call of operation o on key k that has just been entered
Entered(p, o, k, a) ==
    [th[p] EXCEPT !.pc = "call", !.op = o, !.key = k, !.arg = a, !.lv = 0, !.ok = FALSE,
                  !.ev = NilEV, !.res = NoRes, !.did = FALSE]

\* main: series.LoadStore("10")
CallMain ==
    /\ ~panicked
    /\ th[Main].pc = "idle"
    /\ nops < FibCalls
    /\ nops' = nops + 1
    /\ th' = [th EXCEPT ![Main] = Entered(Main, "LoadStore", Itoa(FibKey), NoArg)]
    /\ UNCHANGED <<cfg, it, hist, now, db, tdb, slots, dbLock, halted, cur, wg, detached,
                   reaped, nextVal, panicked, want>>

\* another goroutine calls Load, Store, Delete or LoadStore on one key
CallOther(p, o, n) ==
    /\ ~panicked
    /\ p # Main
    /\ th[p].pc = "idle"
    /\ nops < FibCalls
    /\ o \in {"Load", "Store", "Delete", "LoadStore"}
    /\ n \in FibOthers
    /\ nops' = nops + 1
    /\ th' = [th EXCEPT ![p] = Entered(p, o, Itoa(n),
                                       IF o = "Store" THEN [val |-> 1, wrap |-> NoWrap]
                                       ELSE NoArg)]
    /\ UNCHANGED <<cfg, it, hist, now, db, tdb, slots, dbLock, halted, cur, wg, detached,
                   reaped, nextVal, panicked, want>>

\* another goroutine calls GC
CallGC(p) ==
    /\ ~panicked
    /\ p # Main
    /\ th[p].pc = "idle"
    /\ nops < FibCalls
    /\ nops' = nops + 1
    /\ th' = [th EXCEPT ![p] = Entered(p, "GC", None, NoArg)]
    /\ UNCHANGED <<cfg, it, hist, now, db, tdb, slots, dbLock, halted, cur, wg, detached,
                   reaped, nextVal, panicked, want>>

\* the frame of a LoadStore suspended in its lookup: the lockingValue it
\* holds locked and how far the lookup has come
Frame(p, stage, first) ==
    [key |-> th[p].key, lv |-> th[p].lv, ok |-> th[p].ok, stage |-> stage, first |-> first]

\* LoadStore: value, err := cgm.lookup(key) with the lockingValue locked.  The
\* lookup returns 1 for the keys below 2, else it calls
\* series.LoadStore(strconv.Itoa(value - 1)).
lookupCall(p) ==
    /\ TL
    /\ th[p].pc = "lookup"
    /\ LET value == Atoi(th[p].key) IN
         IF value < 2
         THEN /\ slots' = [slots EXCEPT ![th[p].lv].ev =
                                  newExpiringValue([val |-> 1, wrap |-> NoWrap], ttl)]
              /\ th' = [th EXCEPT ![p].pc = "lswait", ![p].arg = [val |-> 1, wrap |-> NoWrap]]
         ELSE /\ th' = [th EXCEPT ![p] = [Entered(p, "LoadStore", Itoa(value - 1), NoArg)
                                            EXCEPT !.stack = Append(@, Frame(p, 1, 0))]]
              /\ UNCHANGED slots
    /\ UNCHANGED <<cfg, it, hist, now, db, tdb, dbLock, halted, cur, wg, detached,
                   reaped, nextVal, nops, panicked, want>>

\* the LoadStore the lookup called has returned: after the first the lookup
\* calls series.LoadStore(strconv.Itoa(value - 2)); after the second it
\* returns the sum, which LoadStore installs in the lockingValue it holds
lookupReturn(p) ==
    /\ TL
    /\ th[p].pc = "done"
    /\ th[p].stack # << >>
    /\ LET f     == th[p].stack[Len(th[p].stack)]
           rest  == SubSeq(th[p].stack, 1, Len(th[p].stack) - 1)
           r     == th[p].res.val
           value == [val |-> f.first + r, wrap |-> NoWrap]
       IN
         IF f.stage = 1
         THEN /\ th' = [th EXCEPT ![p] = [Entered(p, "LoadStore", Itoa(Atoi(f.key) - 2), NoArg)
                                            EXCEPT !.stack = Append(rest, [f EXCEPT !.stage = 2,
                                                                                    !.first = r])]]
              /\ UNCHANGED slots
         ELSE /\ slots' = [slots EXCEPT ![f.lv].ev = newExpiringValue(value, ttl)]
              /\ th' = [th EXCEPT ![p] = [@ EXCEPT !.pc = "lswait", !.op = "LoadStore",
                                                   !.key = f.key, !.lv = f.lv, !.ok = f.ok,
                                                   !.arg = value, !.res = NoRes, !.did = TRUE,
                                                   !.stack = rest]]
    /\ UNCHANGED <<cfg, it, hist, now, db, tdb, dbLock, halted, cur, wg, detached,
                   reaped, nextVal, nops, panicked, want>>

\* the steps of the callers and of the sweeper
FibSteps ==
    \/ \E p \in Procs :
           \/ twoLevelFind(p) \/ twoLevelCreate(p) \/ twoLevelLoadStoreLock(p)
           \/ lookupCall(p) \/ lookupReturn(p) \/ twoLevelLoadStoreWait(p)
           \/ twoLevelLoad(p) \/ twoLevelLoadSlot(p)
           \/ twoLevelStoreLock(p) \/ twoLevelStoreWait(p)
           \/ twoLevelDelete(p)
    \/ runTick
    \/ \E p \in AllProcs :
           \/ twoLevelGCBegin(p) \/ twoLevelGCLock(p)
           \/ \E k \in FibStrs : twoLevelGCSlot(p, k)
           \/ twoLevelGCEnd(p)

NextFib ==
    \/ CallMain
    \/ \E p \in Procs : CallGC(p)
    \/ \E p \in Procs, o \in Ops, n \in FibKeys : CallOther(p, o, n)
    \/ Tick
    \/ FibSteps

SpecFib == InitFib /\ [][NextFib]_vars

\* ---------------------------------------------------------------- the same lookup in the other variants
\* NewSyncMutexMap, NewSyncAtomicMap or NewChannelMap with the Fibonacci lookup
InitNest ==
    /\ variant \in Variants \ {"twoLevel"}
    /\ FibAllocated

\* what the lookup returns for the keys below 2: the value 1
LookupOne == [err |-> None, arg |-> [val |-> 1, wrap |-> NoWrap]]

\* syncMutexMap and syncAtomicMap: LoadStore calls cgm.lookup(key) with
\* cgm.dbLock locked; for a key of 2 or more the lookup calls
\* series.LoadStore(strconv.Itoa(value - 1)), else it returns 1
lockedLookup(p) ==
    /\ variant \in {"syncMutex", "syncAtomic"}
    /\ ~panicked
    /\ th[p].pc = "lookup"
    /\ IF Atoi(th[p].key) < 2
       THEN syncMutexLoadStoreLookup(p, LookupOne) \/ syncAtomicLoadStoreLookup(p, LookupOne)
       ELSE /\ th' = [th EXCEPT ![p] = [Entered(p, "LoadStore", Itoa(Atoi(th[p].key) - 1), NoArg)
                                          EXCEPT !.stack = Append(@, Frame(p, 1, 0))]]
            /\ UNCHANGED <<cfg, it, hist, now, db, tdb, slots, dbLock, halted, cur, wg,
                           detached, reaped, nextVal, nops, panicked, want>>

\* channelMap: the closure of LoadStore calls cgm.lookup(key) on the run
\* goroutine; for a key of 2 or more the lookup calls series.LoadStore, whose
\* first statement is a send on cgm.queue by the goroutine that receives from it
ownerLookup ==
    /\ CH
    /\ cur.op = "LoadStore" /\ cur.run = "lookup"
    /\ IF Atoi(cur.key) < 2
       THEN channelLoadStoreLookup(LookupOne)
       ELSE /\ th' = [th EXCEPT ![Run] = [Entered(Run, "LoadStore", Itoa(Atoi(cur.key) - 1), NoArg)
                                            EXCEPT !.stack = Append(@, [key |-> cur.key, lv |-> 0,
                                                                        ok |-> FALSE, stage |-> 1,
                                                                        first |-> 0])]]
            /\ cur' = [cur EXCEPT !.run = "nested"]
            /\ UNCHANGED <<cfg, it, hist, now, db, tdb, slots, dbLock, halted, wg,
                           detached, reaped, nextVal, nops, panicked, want>>

\* the steps of the callers and of the sweeper
NestSteps ==
    \/ \E p \in Procs :
           \/ syncMutexLoadStore(p) \/ syncAtomicLoadStore(p) \/ lockedLookup(p)
           \/ syncMutexLoadStoreWait(p) \/ syncAtomicLoadStoreWait(p)
           \/ channelRecv(p) \/ channelLoadStoreWait(p)
    \/ channelLoadStore \/ ownerLookup
    \/ runTick
    \/ syncMutexGC(Run) \/ syncMutexGCWait(Run) \/ syncAtomicGC(Run)

NextNest ==
    \/ CallMain
    \/ \E p \in Procs, n \in FibKeys : CallOther(p, "LoadStore", n)
    \/ Tick
    \/ NestSteps

SpecNest == InitNest /\ [][NextNest]_vars

\* ================================================================ the period of the sweeper
\* time.Second, time.Minute and time.Hour, in tenths of a second
Second == 10
Minute == 60 * Second
Hour   == 60 * Minute

\* the default TTLs of the maps built: none (0), a tenth of a second up to
\* a second, and more than a second
PeriodTTLs == 0..(Second + 1)

\* run: the duration it hands to time.After, computed when the goroutine starts
gcPeriodicity ==
    CASE variant = "twoLevel"   -> IF ttlEnabled /\ ttl <= Second THEN Minute ELSE 15 * Minute
      [] variant = "syncAtomic" -> IF ttl > 0 /\ ttl <= Second THEN Minute ELSE 15 * Minute
      [] variant = "syncMutex"  -> IF ~ttlEnabled THEN Hour
                                   ELSE IF 5 * ttl < Second THEN Minute ELSE 5 * ttl
      [] variant = "channel"    -> IF ~ttlEnabled THEN Hour
                                   ELSE IF 0 < Second THEN Minute ELSE 0

\* a map of any variant, with or without a default TTL, whose constructor has
\* executed `go cgm.run()`; the goroutine has not run yet
InitPeriod ==
    /\ variant \in Variants
    /\ reaperSet \in BOOLEAN
    /\ lookupSet = TRUE
    /\ ttl \in PeriodTTLs
    /\ ctor = Returned(lookupSet, reaperSet, ttl)
    /\ now = 1
    /\ db = [k \in Keys |-> NilEV]
    /\ tdb = [k \in Keys |-> 0]
    /\ slots = << >>
    /\ dbLock = None
    /\ halted = FALSE
    /\ th = [p \in AllProcs |->
               [pc |-> IF p = Run THEN "unstarted" ELSE "idle", op |-> None, key |-> None,
                arg |-> NoArg, lv |-> 0, ok |-> FALSE, ev |-> NilEV, res |-> NoRes,
                t0 |-> 0, did |-> FALSE, expect |-> Unknown, todo |-> {}, cap |-> 0,
                gcnow |-> 0, keys |-> {}, clean |-> FALSE, waited |-> 0,
                period |-> 0]]
    /\ cur = NoFn
    /\ wg = [p \in AllProcs |-> {}]
    /\ detached = {}
    /\ reaped = [v \in Vals |-> 0]
    /\ nextVal = 1
    /\ nops = 0
    /\ panicked = FALSE
    /\ valExp = [v \in Vals |-> 0]
    /\ valKey = [v \in Vals |-> None]
    /\ want = [k \in Keys |-> Unknown]
    /\ atClose = NotClosed
    /\ it = NoIt

\* run: the statements before the loop; the timer of the first round starts
runStart ==
    /\ th[Run].pc = "unstarted"
    /\ th' = [th EXCEPT ![Run].pc = "active", ![Run].period = gcPeriodicity, ![Run].t0 = now]
    /\ UNCHANGED <<cfg, it, hist, now, db, tdb, slots, dbLock, halted, cur, wg, detached,
                   reaped, nextVal, nops, panicked, want>>

SpecPeriod == InitPeriod /\ [][runStart]_vars

\* ================================================================ a Pairs channel that is not drained
\* the caller of Pairs holds the channel and receives from it
Reading ==
    /\ it.from # None
    /\ th[it.from].op = "Pairs"
    /\ th[it.from].pc \in {"range", "sent"}

\* the caller of Pairs leaves its range loop before close(pairs): from now
\* on nothing receives from the channel
StopReading(p) ==
    /\ ~panicked
    /\ p = it.from
    /\ Reading
    /\ it.pc # "closed"
    /\ variant \in {"syncAtomic", "channel"} => it.pc # "scan"
    /\ th' = Return(p, NoRes)
    /\ UNCHANGED <<cfg, it, hist, now, db, tdb, slots, dbLock, halted, cur, wg, detached,
                   reaped, nextVal, nops, panicked, want>>

\* syncMutexMap.Pairs: the goroutine of key k; the channel has no buffer, so
\* the send of a valid pair waits for the receiver
syncMutexPairsSend(k) ==
    /\ SM
    /\ it.pc = "scan" /\ k \in it.todo
    /\ Valid(it.snap[k], it.now) => Reading
    /\ syncMutexPairsEntry(k)

\* twoLevelMap and syncMutexMap: wg.Wait(), close(pairs) on a channel that
\* nothing receives from
PairsCloseLeft ==
    /\ ~panicked
    /\ variant \in {"twoLevel", "syncMutex"}
    /\ it.pc = "scan" /\ it.todo = {}
    /\ ~Reading
    /\ it' = [it EXCEPT !.pc = "closed"]
    /\ UNCHANGED <<cfg, hist, now, db, tdb, slots, dbLock, halted, th, cur, wg, detached,
                   reaped, nextVal, nops, panicked, want>>

\* syncAtomicMap.Pairs, the goroutine, when nothing receives: Lock the writer
\* mutex, load the map, sample the clock; with no valid entry close(pairs)
\* and the deferred Unlock, else wait in the first send with the mutex held
syncAtomicPairsLeft ==
    /\ SA
    /\ it.pc = "spawned"
    /\ dbLock = None
    /\ ~Reading
    /\ LET m == [k \in {x \in Keys : db[x].val # 0} |-> db[k]] IN
         IF PairsOf(m, now) = << >>
         THEN /\ it' = [it EXCEPT !.pc = "closed", !.snap = m, !.now = now]
              /\ UNCHANGED dbLock
         ELSE /\ it' = [it EXCEPT !.pc = "send", !.snap = m, !.now = now]
              /\ dbLock' = "pairs"
    /\ UNCHANGED <<cfg, hist, now, db, tdb, slots, halted, th, cur, wg, detached,
                   reaped, nextVal, nops, panicked, want>>

\* channelMap.Pairs, the closure, when nothing receives: with no valid entry
\* close(pairs) and the closure ends, else the owner waits in the first send
channelPairsLeft ==
    /\ CH
    /\ cur.op = "Pairs" /\ cur.run = "fn"
    /\ ~Reading
    /\ LET m == [k \in {x \in Keys : db[x].val # 0} |-> db[k]] IN
         IF PairsOf(m, now) = << >>
         THEN /\ it' = [it EXCEPT !.pc = "closed", !.snap = m, !.now = now]
              /\ cur' = NoFn
         ELSE /\ it' = [it EXCEPT !.pc = "send", !.snap = m, !.now = now]
              /\ cur' = [cur EXCEPT !.run = "send"]
    /\ UNCHANGED <<cfg, hist, now, db, tdb, slots, dbLock, halted, th, wg, detached,
                   reaped, nextVal, nops, panicked, want>>

\* the steps of a Pairs iteration whose caller may stop receiving
LeftSteps ==
    \/ \E p \in Procs : \/ twoLevelPairs(p) \/ syncMutexPairs(p) \/ syncAtomicPairs(p)
                        \/ StopReading(p)
    \/ PairsNow
    \/ Reading /\ PairsClose
    \/ Reading /\ syncAtomicPairsScan
    \/ Reading /\ channelPairs
    \/ PairsCloseLeft \/ syncAtomicPairsLeft \/ channelPairsLeft
    \/ \E k \in Keys : twoLevelPairsSlot(k) \/ syncMutexPairsSend(k)
    \/ syncAtomicPairsClose \/ channelPairsClose

NextLeft ==
    \/ \E p \in Procs : CallPairs(p)
    \/ \E p \in Procs, o \in Ops \ {"GC"}, k \in Keys : Call(p, o, k, NoWrap)
    \/ Tick
    \/ RaceSteps
    \/ StoreLoadSteps
    \/ LeftSteps

\* a map with a lookup and a TTL, a caller that may leave the range over
\* Pairs early, and the calls that follow
SpecLeft == InitRace /\ [][NextLeft]_vars

\* ================================================================ properties
\* the call of p is inside the lookup callback
InLookup(p) ==
    IF variant = "channel"
    THEN cur.from = p /\ cur.run = "lookup"
    ELSE th[p].pc = "lookup"

\* the lookups in flight for key k
InFlight(k) == {p \in Procs : InLookup(p) /\ th[p].key = k}

\* C1: with a reaper configured, every value that was installed and has been
\* displaced (replaced, deleted, swept or drained) is handed to the reaper
\* exactly once: never twice, and once all goroutines are done, once.
C1_ReapedExactlyOnce ==
    reaperSet =>
        \A v \in Vals :
            /\ reaped[v] <= 1
            /\ (Quiescent /\ valKey[v] # None /\ ~Reachable(v)) => reaped[v] = 1

\* C2: at most one lookup is in flight per key, whatever the interleaving.
C2_OneLookupPerKey ==
    \A k \in Keys : Cardinality(InFlight(k)) <= 1


\* the value with history expiry e has not expired at time t
Live(v, t) == valExp[v] = 0 \/ valExp[v] > t

\* the LoadStore of p is about to examine what its key holds
AtExam(p) ==
    /\ th[p].op = "LoadStore"
    /\ IF variant = "twoLevel" THEN th[p].pc = "slot"
       ELSE IF variant = "channel" THEN cur.from = p /\ cur.op = "LoadStore" /\ cur.run = "fn"
       ELSE th[p].pc = "call"

\* what the LoadStore of p finds in the slot it examines
Observed(p) ==
    IF variant = "twoLevel" THEN slots[th[p].lv].ev ELSE db[th[p].key]

\* what the map holds under key k
Entry(k) ==
    IF variant = "twoLevel"
    THEN IF tdb[k] = 0 THEN NilEV ELSE slots[tdb[k]].ev
    ELSE db[k]

\* C3: a LoadStore that arrived while a lookup for its key was in flight
\* returns that lookup's outcome, value or error, and invokes no lookup of
\* its own.
C3_WaiterSeesOutcome ==
    \A p \in Procs :
        th[p].waited # 0 =>
            /\ ~th[p].did
            /\ th[p].pc # "panic"
            /\ th[p].pc = "done" =>
                  IF th[p].waited = -1
                  THEN th[p].res = Failed(LookupErr)
                  ELSE th[p].res.err = None /\ th[p].res.val = th[p].waited

\* the only calls ever issued are one LoadStore per caller, all for key k,
\* the map is open and no value has expired
Cluster(k) ==
    /\ nops = Cardinality(Procs)
    /\ ~halted
    /\ \A p \in Procs : th[p].op = "LoadStore" /\ th[p].key = k
    /\ \A v \in Vals : valKey[v] # None => Live(v, now)

\* C4: in the two-level and coarse-mutex variants, concurrent LoadStores of
\* an absent key whose lookup succeeds, with no store, delete or expiry in
\* between, invoke lookup exactly once and all return the value it produced.
C4_ClusterOneLookup ==
    \A k \in Keys :
        (variant \in {"twoLevel", "syncMutex"} /\ Cluster(k)) =>
            /\ \A p \in Procs : th[p].pc # "panic"
            /\ (\A p \in Procs : th[p].pc = "done" /\ th[p].res.err = None) =>
                  /\ Cardinality({p \in Procs : th[p].did}) = 1
                  /\ \A p, q \in Procs : th[p].res.val = th[q].res.val


\* C5: Store returns only once the slot holds the new value: a Load that
\* starts after Store(k, v) returned and before any other call changes k
\* returns (v, true), as long as v has not expired.
C5_StoreThenLoad ==
    \A p \in Procs :
        (/\ th[p].op = "Load" /\ th[p].pc = "done"
         /\ th[p].expect.s = "store" /\ Live(th[p].expect.val, now))
        => th[p].res.ok /\ th[p].res.val = th[p].expect.val

\* C6: Load never returns (v, true) for a value whose expiry is earlier than
\* the time the call began.
C6_NoExpiredLoad ==
    \A p \in Procs :
        (th[p].op = "Load" /\ th[p].pc = "done" /\ th[p].res.ok)
        => valExp[th[p].res.val] = 0 \/ valExp[th[p].res.val] >= th[p].t0

\* a Load returned (nil, false) for a key that still holds an expired value
C6_Witness ==
    \E p \in Procs, v \in Vals :
        /\ th[p].op = "Load" /\ th[p].pc = "done" /\ ~th[p].res.ok
        /\ Reachable(v) /\ valKey[v] = th[p].key
        /\ valExp[v] # 0 /\ valExp[v] < th[p].t0

\* C7: a Load that starts after Delete(k) returned and before any Store or
\* LoadStore for k returns (nil, false).
C7_DeleteThenLoad ==
    \A p \in Procs :
        (th[p].op = "Load" /\ th[p].pc = "done" /\ th[p].expect = Absent)
        => th[p].res = Miss

\* the deleted key had held a value
C7_Witness ==
    \E p \in Procs, v \in Vals :
        /\ th[p].op = "Load" /\ th[p].pc = "done" /\ th[p].expect = Absent
        /\ th[p].res = Miss
        /\ valKey[v] = th[p].key

\* C8: a LoadStore whose own lookup succeeds with v stores v under the key
\* and returns v with no error, and a Load that starts after it returned and
\* before any other call changes the key returns (v, true), as long as v has
\* not expired.
C8_LookupThenLoad ==
    \A p \in Procs :
        /\ (th[p].op = "LoadStore" /\ th[p].pc = "done" /\ th[p].did /\ th[p].res.err = None)
           => th[p].res.ok /\ th[p].res.val \in Vals /\ valKey[th[p].res.val] = th[p].key
        /\ (/\ th[p].op = "Load" /\ th[p].pc = "done"
            /\ th[p].expect.s = "lookup" /\ Live(th[p].expect.val, now))
           => th[p].res.ok /\ th[p].res.val = th[p].expect.val

\* C9: lookup is entered only by a LoadStore, never by a Load, and only when
\* the LoadStore has found no value, or an expired one, under its key; a
\* LoadStore that finds a valid value returns it without invoking lookup,
\* and a LoadStore that overlaps no other Store, Delete or LoadStore of the
\* key finds the valid value the map holds under the key.
C9_LookupFrame ==
    [][\A p \in Procs :
          /\ (~InLookup(p) /\ InLookup(p)')
             => (AtExam(p) /\ ~Valid(Observed(p), now))
          /\ (AtExam(p) /\ ~AtExam(p)' /\ Valid(Observed(p), now))
             => (/\ th'[p].pc = "done" /\ ~th'[p].did
                 /\ th'[p].res = Hit(Observed(p)))
          /\ (AtExam(p) /\ ~AtExam(p)' /\ th[p].clean /\ Valid(Entry(th[p].key), now))
             => Observed(p) = Entry(th[p].key)
      ]_vars

\* a LoadStore returned a stored value without invoking lookup
C9_Witness ==
    \E p \in Procs :
        /\ th[p].op = "LoadStore" /\ th[p].pc = "done"
        /\ ~th[p].did /\ th[p].res.ok /\ th[p].res.err = None
        /\ th[p].res.val \in Vals /\ valKey[th[p].res.val] = th[p].key

\* C10: a LoadStore whose lookup fails returns exactly that error and a nil
\* value and stores nothing; nothing negative is cached: a Load of the key
\* that follows returns (nil, false) and the next LoadStore of the key
\* invokes lookup again.
C10_FailedLookupNotCached ==
    \A p \in Procs :
        /\ (th[p].op = "LoadStore" /\ th[p].pc = "done" /\ th[p].res.err # None)
           => th[p].res = Failed(LookupErr)
        /\ (th[p].op = "Load" /\ th[p].pc = "done" /\ th[p].expect = LookupFailed)
           => th[p].res = Miss
        /\ (th[p].op = "LoadStore" /\ th[p].expect = LookupFailed)
           => /\ th[p].pc # "panic"
              /\ th[p].pc = "done" => th[p].did

\* C11: a LoadStore whose lookup fails has handed no value to the reaper:
\* when its lookup returns the error, no reaper goroutine started by the call
\* is waiting to run, also when the key held an expired value.
C11_FailedLookupNoReaper ==
    [][\A p \in Procs :
          (InLookup(p) /\ ~InLookup(p)' /\ th'[p].res.err # None)
          => wg[p] = {}
      ]_vars

\* C12: with no lookup configured, a LoadStore that finds a value that has
\* not expired returns it with no error, and a LoadStore that finds no
\* value, or an expired one, goes to the default lookup and returns a nil
\* value with ErrNoLookupDefined.
C12_NoLookupDefined ==
    [][~lookupSet =>
        \A p \in Procs :
          /\ (AtExam(p) /\ ~AtExam(p)' /\ Valid(Observed(p), now))
             => (th'[p].pc = "done" /\ th'[p].res = Hit(Observed(p)))
          /\ (AtExam(p) /\ ~AtExam(p)' /\ ~Valid(Observed(p), now))
             => InLookup(p)'
          /\ (InLookup(p) /\ ~InLookup(p)')
             => (/\ th'[p].pc \in {"lswait", "done"}
                 /\ th'[p].res = Failed("ErrNoLookupDefined"))
          /\ (th[p].op = "LoadStore" /\ th[p].pc = "lswait" /\ th'[p].pc = "done")
             => th'[p].res = th[p].res
      ]_vars

Expiries == {NoWrap} \cup (0..MaxTime)

\* the expiry the rule gives to a value produced with wrapper expiry w
RuleExpiry(w) == IF w # NoWrap THEN w ELSE IF ttl > 0 THEN now + ttl ELSE 0

\* C14: one rule gives a value its expiry in every variant, for Store and
\* for lookup alike: the expiry the producer wrapped it with, taken as it is
\* whatever the default TTL (zero: the value never expires); with no wrapper
\* the current time plus the default TTL, or no expiry without a default TTL.
C14_ExpiryRule ==
    [][/\ \A v \in Vals, w \in Expiries :
            /\ newExpiringValue([val |-> v, wrap |-> w], ttl) = [val |-> v, exp |-> RuleExpiry(w)]
            /\ ensureExpiringValue([val |-> v, wrap |-> w]) = [val |-> v, exp |-> RuleExpiry(w)]
       /\ \A v \in Vals, t \in 1..MaxTime :
            /\ Valid(newExpiringValue([val |-> v, wrap |-> 0], ttl), t)
            /\ ~Expired(newExpiringValue([val |-> v, wrap |-> 0], ttl), t)
       /\ \A v \in Vals :
            (valKey[v] = None /\ valKey'[v] # None)
            => \E p \in Procs :
                  /\ th'[p].arg.val = v
                  /\ Observed(p)' = [val |-> v, exp |-> RuleExpiry(th'[p].arg.wrap)]
                  /\ valExp'[v] = RuleExpiry(th'[p].arg.wrap)
      ]_vars

\* a value wrapped with its own expiry was installed in a map that has a
\* default TTL, and kept the expiry of its wrapper
C14_Witness ==
    \E p \in Procs :
        /\ th[p].op \in {"Store", "LoadStore"} /\ th[p].arg.val # 0
        /\ valKey[th[p].arg.val] = th[p].key
        /\ ttl > 0 /\ th[p].arg.wrap # NoWrap
        /\ Observed(p) = [val |-> th[p].arg.val, exp |-> th[p].arg.wrap]

\* C15: Load and LoadStore hand out the inner value only, never the
\* *ExpiringValue wrapper a Store was given or a lookup returned.
C15_InnerValueOnly ==
    \A p \in Procs :
        (th[p].op \in {"Load", "LoadStore"} /\ th[p].pc = "done")
        => ~th[p].res.wrapper

\* C16: with a reaper configured, a Close called while no call is in
\* progress makes the run goroutine hand every value the map held at that
\* moment to the reaper exactly once, expired or not, and no other value:
\* the run goroutine does not crash, and once it has exited and its reaper
\* goroutines have run each of those values has been reaped once more than
\* before Close, every other value as often as before.
C16_CloseReapsAll ==
    (reaperSet /\ halted /\ atClose.quiet) =>
        /\ th[Run].pc # "panic"
        /\ (th[Run].pc = "exited" /\ Quiescent) =>
              \A v \in Vals :
                  reaped[v] = atClose.reaped[v] + (IF v \in atClose.vals THEN 1 ELSE 0)

\* C17: once Close has returned the run goroutine has terminated, and the
\* reaper is not invoked any more on a value the map held when Close was
\* called.
C17_CloseWaits ==
    [][halted =>
          /\ th[Run].pc = "exited"
          /\ \A v \in atClose.vals : reaped'[v] = reaped[v]
      ]_vars

\* this step hands value v to the reaper: the reaper is called on it, or a
\* reaper goroutine is started on it
Handed(v) ==
    \/ reaped'[v] = reaped[v] + 1
    \/ \E q \in AllProcs : v \in wg'[q] /\ v \notin wg[q]
    \/ v \in detached' /\ v \notin detached

\* this step hands no value to the reaper
NothingHanded ==
    /\ reaped' = reaped
    /\ \A q \in AllProcs : wg'[q] \subseteq wg[q]
    /\ detached' \subseteq detached

\* in this step the Store of p installs its value
StoreInstalls(p) ==
    /\ th[p].op = "Store" /\ th[p].arg.val # 0
    /\ valKey[th[p].arg.val] = None /\ valKey'[th[p].arg.val] # None

\* C18: with a reaper configured, a Store that replaces the value v1 of an
\* entry hands v1 to the reaper and returns only after the reaper has run; a
\* Store to a key with no entry hands nothing to the reaper; no Store
\* crashes.
C18_StoreReapsOld ==
    [][reaperSet =>
        \A p \in Procs :
          /\ th[p].op = "Store" => th'[p].pc # "panic"
          /\ StoreInstalls(p) =>
                IF Entry(th[p].key).val # 0
                THEN Handed(Entry(th[p].key).val)
                ELSE NothingHanded
          /\ (th[p].op = "Store" /\ th[p].pc # "done" /\ th'[p].pc = "done")
             => wg[p] = {}
      ]_vars

\* in this step the Delete of p takes its key out of the map
DeleteRemoves(p) ==
    IF variant = "channel"
    THEN cur.op = "Delete" /\ cur.from = p /\ cur' = NoFn
    ELSE th[p].op = "Delete" /\ th[p].pc = "call" /\ th'[p].pc # "call"

\* the key of the Delete of p: the channel map's caller may have gone on
\* to its next call by the time the owner runs the closure
DeletedKey(p) ==
    IF variant = "channel" THEN cur.key ELSE th[p].key

\* the value the Delete of p is about to call the reaper on
PendingReap(p) ==
    IF variant = "twoLevel" THEN slots[th[p].lv].ev.val ELSE th[p].ev.val

\* C19: with a reaper configured, a Delete of a key that has an entry
\* removes the entry and hands its value to the reaper, at once or as the
\* next thing the call does; a Delete of a key with no entry hands nothing
\* to the reaper; no Delete crashes.
C19_DeleteReaps ==
    [][reaperSet =>
        \A p \in Procs :
          /\ th[p].op = "Delete" => th'[p].pc # "panic"
          /\ \A k \in Keys :
                (DeleteRemoves(p) /\ DeletedKey(p) = k) =>
                   /\ Entry(k)'.val = 0
                   /\ IF Entry(k).val # 0
                      THEN \/ Handed(Entry(k).val)
                           \/ /\ th'[p].pc = "delreap"
                              /\ PendingReap(p)' = Entry(k).val
                      ELSE /\ NothingHanded
                           /\ th'[p].pc # "delreap"
          /\ (th[p].pc = "delreap" /\ th'[p].pc = "done")
             => reaped' = ReapAll(reaped, {PendingReap(p)})
      ]_vars

\* this step is taken by a GC: its caller, or the owner running its closure
GCActs ==
    IF variant = "channel"
    THEN cur.op = "GC" /\ cur' = NoFn
    ELSE \E p \in AllProcs : /\ th[p].op = "GC" /\ th[p].pc # Ret(p)
                             /\ th'[p] # th[p]

\* this step is the sweep of a GC that sweeps the map in one step
GCSweeps ==
    IF variant = "channel"
    THEN cur.op = "GC" /\ cur' = NoFn
    ELSE /\ variant # "twoLevel"
         /\ \E p \in AllProcs : th[p].op = "GC" /\ th[p].pc = "call" /\ th'[p].pc # "call"

\* C20: GC takes out of the map the entries whose expiry is in the past and
\* hands their values to the reaper; an entry with no expiry or with an
\* expiry still to come is left in the map by every step of a GC, and its
\* value is not handed to the reaper.
C20_GCRemovesExpiredOnly ==
    [][\A k \in Keys :
          /\ (GCActs /\ Valid(Entry(k), now))
             => (/\ Entry(k)' = Entry(k)
                 /\ ~Handed(Entry(k).val))
          /\ (GCSweeps /\ Expired(Entry(k), now))
             => (/\ Entry(k)'.val = 0
                 /\ reaperSet => Handed(Entry(k).val))
      ]_vars

Reads(p, v) ==
    /\ th[p].op \in {"Load", "LoadStore"}
    /\ th'[p].res.val = v
    /\ th[p].res.val # v

\* C26: the reaper is invoked on a value only when no key of the map holds
\* it as a valid entry any more, and a value the reaper has been invoked on
\* is not taken as its result by any Load or LoadStore.
C26_ReapedUnreachable ==
    [][\A v \in Vals :
          /\ reaped'[v] > reaped[v]
             => \A k \in Keys : ~(Entry(k)'.val = v /\ Valid(Entry(k)', now'))
          /\ \A p \in Procs : Reads(p, v) => reaped[v] = 0
      ]_vars

\* p is the only caller that has made any call so far
OnlyCaller(p) == \A q \in Procs \ {p} : th[q].pc = "idle"

\* C25: when one caller alone has made all the calls on the key, the only
\* total order that respects its program order is that order itself, so
\* each of its Loads returns what its latest Store, Delete or LoadStore
\* left under the key: the stored or looked-up value while it has not
\* expired, nothing after a Delete.
C25_ProgramOrder ==
    \A p \in Procs :
        (OnlyCaller(p) /\ th[p].op = "Load" /\ th[p].pc = "done")
        => /\ (th[p].expect.s \in {"store", "lookup"} /\ Live(th[p].expect.val, now))
              => th[p].res = Hit([val |-> th[p].expect.val])
           /\ th[p].expect = Absent => th[p].res = Miss

\* some goroutine can take a step; the passing of time alone is not one
CanStep == ENABLED ((Next \/ NextClose) /\ now' = now)

\* C27: Close does not strand the calls in flight: as long as a call that
\* was made before Close has not returned, some goroutine can take a step,
\* so that the call is never left waiting for something that can no longer
\* happen.
C27_CloseNoPreempt ==
    (halted /\ ~panicked /\ \E p \in Procs : th[p].pc \notin {"idle", "done"})
    => CanStep

\* C24: the workload of testRace runs to completion: while a task's Delete
\* or LoadStore has not returned, a task or the sweeper can take a step, so
\* that no task is left waiting for something that can no longer happen.
C24_RaceTerminates ==
    (\E p \in Procs : th[p].pc \notin {"idle", "done"}) => ENABLED RaceSteps

\* the time at which the iteration reads the value it is about to send:
\* syncMutexMap reads the values when it copies them out of the map, the
\* other variants when they test them
InspectedAt == IF variant = "syncMutex" THEN it.at ELSE now

\* C21: the pairs a Pairs iteration sends have distinct keys, and the value
\* of each pair was not expired at the moment the iteration read it from
\* its slot, whatever Store, Delete and LoadStore calls run at the same
\* time.
C21_PairsValid ==
    [][/\ \A i, j \in DOMAIN it'.out : it'.out[i].key = it'.out[j].key => i = j
       /\ \A i \in DOMAIN it'.out : i > Len(it.out) => Live(it'.out[i].val, InspectedAt)
      ]_vars

\* no other call was in flight when Pairs was called and none has been made
\* since
NoMutation == it.alone /\ nops = it.nops

\* C22: on a map no caller is changing, a Pairs iteration can always go on
\* until its channel is closed, and by then it has sent the pair of every
\* entry that is valid.
C22_PairsComplete ==
    \A p \in Procs :
        (th[p].op = "Pairs" /\ NoMutation)
        => /\ th[p].pc # "done" => ENABLED (PairsSteps \/ RaceSteps \/ StoreLoadSteps)
           /\ th[p].pc = "done"
              => \A k \in Keys :
                    Valid(Entry(k), now)
                    => \E i \in DOMAIN it.out : it.out[i] = [key |-> k, val |-> Entry(k).val]

\* what the lookup computes for key n
RECURSIVE Fib(_)
Fib(n) == IF n < 2 THEN 1 ELSE Fib(n - 1) + Fib(n - 2)

\* p is inside a call: in the call main or the other goroutine issued, or in
\* a LoadStore its lookup called
InCall(p) == th[p].pc \notin {"idle", "done"} \/ th[p].stack # << >>

\* C23: in the two-level map with the Fibonacci lookup, LoadStore on the top
\* key terminates without deadlock (while it is under way some goroutine can
\* take a step) and returns the Fibonacci number of the key (89 for key 10),
\* no other caller having stored a value of its own.
C23_FibTerminates ==
    /\ InCall(Main) => ENABLED FibSteps
    /\ (th[Main].pc = "done" /\ ~InCall(Main) /\ \A q \in Procs : th[q].op # "Store")
       => th[Main].res = [val |-> Fib(FibKey), ok |-> TRUE, err |-> None, wrapper |-> FALSE]

\* the goroutine holds the lock of some lockingValue
HoldsSlot(p) == \E s \in DOMAIN slots : slots[s].l = p

\* the goroutine stands at cgm.dbLock.RLock() or cgm.dbLock.Lock()
RequestsOuter(p) ==
    \/ th[p].pc = "call" /\ th[p].op \in {"Load", "LoadStore", "Store", "Delete"}
    \/ th[p].pc \in {"create", "gclock"}

\* C29: in the two-level map no goroutine requests the outer lock while it
\* holds the lock of a slot, a lookup running inside LoadStore included.
C29_LockOrder == \A p \in AllProcs : ~(HoldsSlot(p) /\ RequestsOuter(p))

\* a lookup for key k is in progress: a LoadStore on k, its caller's own or
\* one a lookup called, has locked the lockingValue and not yet left lookup
LookupInProgress(k) ==
    \E q \in Procs : \/ th[q].pc = "lookup" /\ th[q].key = k
                     \/ \E i \in DOMAIN th[q].stack : th[q].stack[i].key = k

\* the lock of the lockingValue the call of p works on, or would find under
\* its key, is free
SlotFree(p) ==
    /\ th[p].lv # 0 => slots[th[p].lv].l = None
    /\ tdb[th[p].key] # 0 => slots[tdb[th[p].key]].l = None

\* the next step of the call of p on its key
OpStep(p) ==
    \/ twoLevelLoad(p) \/ twoLevelLoadSlot(p) \/ twoLevelFind(p) \/ twoLevelCreate(p)
    \/ twoLevelLoadStoreLock(p) \/ twoLevelStoreLock(p) \/ twoLevelDelete(p)

\* a step that needs no lookup to return: of the sweeper, or of a Store or
\* LoadStore that has its value and is about to unlock
NoLookupStep ==
    \/ \E q \in AllProcs : \/ twoLevelGCLock(q) \/ twoLevelGCEnd(q)
                            \/ \E k \in FibStrs : twoLevelGCSlot(q, k)
    \/ \E q \in Procs : twoLevelStoreWait(q) \/ twoLevelLoadStoreWait(q)

\* C28: in the two-level map, while a lookup for key a is in progress, a
\* Load, Store, Delete or LoadStore on a different key b, for which no lookup
\* is in progress, is not blocked by it: the call can take its next step, at
\* once or after steps that wait for no lookup.
C28_OtherKeyNotBlocked ==
    \A p \in Procs :
        (/\ th[p].pc \in {"call", "create", "slot"}
         /\ th[p].stack = << >>
         /\ th[p].op \in {"Load", "Store", "Delete", "LoadStore"}
         /\ SlotFree(p)
         /\ ~LookupInProgress(th[p].key)
         /\ \E a \in FibStrs \ {th[p].key} : LookupInProgress(a))
        => ENABLED (OpStep(p) \/ NoLookupStep)

\* C31: in the channel map every invocation of the reaper runs on a goroutine
\* of its own: the step that invokes it is no step of the closure the owner
\* is running, nor of the run goroutine.
C31_ReaperDetached ==
    [][variant = "channel"
       => \A v \in Vals : reaped'[v] > reaped[v] => (cur' = cur /\ th'[Run] = th[Run])]_vars

\* the call of p waits for the reaper goroutine of v, which runs in this step
ReaperRunsFor(p, v) == v \in wg[p] /\ v \notin wg'[p] /\ reaped'[v] > reaped[v]

\* a goroutine of the GC of p, holding the lock of its lockingValue, invokes
\* the reaper in this step
ReapsInGC(p) ==
    /\ th[p].pc = "gcscan" /\ th'[p].todo # th[p].todo
    /\ \E v \in Vals : reaped'[v] > reaped[v]

\* C32: in the two-level map no reaper invocation takes place while a slot
\* lock is held: neither by the call that started the reaper and waits for
\* it, nor by the goroutine that invokes it.
C32_NoReapUnderSlotLock ==
    [][variant = "twoLevel"
       => \A p \in AllProcs : /\ \A v \in Vals : ReaperRunsFor(p, v) => ~HoldsSlot(p)
                              /\ ~ReapsInGC(p)]_vars

\* key k has a lockingValue without a value that no call is working on: what
\* a LoadStore whose lookup failed leaves behind
EmptySlot(k) ==
    /\ tdb[k] # 0
    /\ slots[tdb[k]].ev = NilEV /\ slots[tdb[k]].l = None
    /\ \A q \in Procs : th[q].pc \in {"idle", "done"}

\* C33: in the two-level map the slot of a LoadStore whose lookup failed is
\* not left for good: a GC that ends afterwards has removed the value-less
\* slot from the table.
C33_EmptySlotCollected ==
    [][variant = "twoLevel"
       => \A p \in AllProcs :
            (th[p].pc = "gcscan" /\ th'[p].pc # "gcscan")
            => \A k \in Keys : EmptySlot(k) => tdb'[k] = 0]_vars

\* C34: in every variant a lookup for key k may call LoadStore on another key
\* of the same map without deadlock: while a call is under way, the nested
\* one included, some goroutine can take a step.  (The run goroutine of the
\* channel map waiting in its own GC is left aside.)
C34_NestedTerminates ==
    ((\E p \in Procs : InCall(p)) /\ th[Run].pc # "gcsend") => ENABLED NestSteps

\* C35: in every variant the period of the sweeper is 15 minutes when no
\* default TTL is set or the default TTL exceeds one second, and one minute
\* when the default TTL lies in (0, 1 second].
C35_SweeperPeriod ==
    th[Run].pc = "active"
    => th[Run].period = IF ttl > 0 /\ ttl <= Second THEN Minute ELSE 15 * Minute

\* C36: in the channel map a tick of the sweeper completes: once the timer of
\* the run goroutine has fired and it has called GC, the goroutine can go on,
\* to finish the GC and serve the queue again.
C36_SweeperTickCompletes ==
    (variant = "channel" /\ ~panicked /\ th[Run].op = "GC")
    => ENABLED (Next /\ (th'[Run] # th[Run] \/ cur' # cur))

\* C37: in the two-level map with a reaper no operation reads the value of a
\* slot that holds none: Store, LoadStore, Delete and the drain of Close on a
\* key whose slot is empty complete without the nil dereference that ends
\* the process.
C37_NoNilDeref ==
    (variant = "twoLevel" /\ reaperSet)
    => /\ ~panicked
       /\ \A p \in AllProcs : th[p].pc # "panic"

\* value v is in the hands of the reaper: it has been called on v, a goroutine
\* that will call it has been started, or a Delete is about to call it
WithReaper(v) ==
    \/ reaped[v] > 0
    \/ v \in detached
    \/ \E q \in AllProcs : v \in wg[q]
    \/ \E q \in Procs : th[q].pc = "delreap" /\ slots[th[q].lv].ev.val = v

\* C38: in the two-level map with a reaper, when a Store or a successful
\* LoadStore returns, the value it installed is held by the map under some
\* key or is in the hands of the reaper, whatever Delete ran meanwhile.
C38_ValueNotOrphaned ==
    [][(variant = "twoLevel" /\ reaperSet /\ ~panicked')
       => \A p \in Procs : \A v \in Vals :
            (/\ th[p].pc \in {"stwait", "lswait"} /\ th'[p].pc = "done"
             /\ th[p].arg.val = v)
            => (Reachable(v) \/ WithReaper(v))']_vars

\* a GC is under way: it stands at or past cgm.dbLock.Lock() and has not
\* returned
InGC(p) == th[p].pc \in {"gclock", "gcscan"}

\* C39: in the two-level map a GC, called by a goroutine or by the sweeper,
\* that runs while a LoadStore is inside a lookup that itself calls LoadStore
\* on another key never deadlocks: the GC or one of the calls can take a step.
C39_GCNestedNoDeadlock ==
    \A g \in AllProcs :
        (InGC(g) /\ \E p \in Procs : th[p].stack # << >>) => ENABLED FibSteps

\* the caller of Pairs has left the range loop and the channel is not closed
Left ==
    /\ it.pc \notin {None, "closed"}
    /\ ~(th[it.from].op = "Pairs" /\ th[it.from].pc \in {"call", "range", "sent"})

\* C40: a Pairs channel whose receiver stops before the end does not keep a
\* later call on the same map from completing: a call that runs with no
\* other call and no sweep under way can always take its next step, or the
\* goroutine that sends the pairs can.
C40_AbandonedPairsHarmless ==
    \A p \in Procs :
        (/\ Left
         /\ ~panicked
         /\ th[p].pc \notin {"idle", "done"}
         /\ \A q \in Procs \ {p} : th[q].pc \in {"idle", "done"}
         /\ th[Run].pc = "active")
        => ENABLED (/\ RaceSteps \/ StoreLoadSteps \/ LeftSteps
                    /\ th'[p] # th[p] \/ cur' # cur \/ it' # it)
====
